---- MODULE Spec2Model ----
(***************************************************************************)
(* The idempotent multi-target publish orchestrator of the SEO social      *)
(* toolkit: publishPost over the PostgreSQL ledger (post_requests,         *)
(* post_drafts, post_results) and the X / Discord publishers.              *)
(*                                                                         *)
(* Strings that the code builds are sequences of atoms (<<>> is the empty  *)
(* string); JavaScript undefined and SQL NULL are two sentinel sequences.  *)
(***************************************************************************)
EXTENDS Integers, Sequences, FiniteSets, TLC

VARIABLES
    requests,   \* post_requests: request_id -> row or NoRow
    drafts,     \* post_drafts: request_id -> sequence of inserted drafts
    results,    \* post_results: request_id -> rows in created_at order
    pc,         \* per call slot: position inside publishPost
    input,      \* per call slot: the PublishInput of the current call
    loc,        \* per call slot: the locals of publishPost / publishToTargets
    out,        \* per call slot: what the last call returned or threw
    snap,       \* per call slot: the ledger as it was when the call started
    attempted,  \* per call slot: the targets publishToTargets went through,
                \* each with whether its publisher's publish was called and
                \* whether the iteration ended without an error
    config,     \* the configuration the process was started with
    now,        \* the wall clock / platform id counter
    published,  \* request_id -> target -> number of real successful publishes
    prev,       \* the call the client made last, if it created the request:
                \* its input and the per_target_results it returned
    ppc,        \* per publish call: position inside publish / retryWithBackoff
    pinput,     \* per publish call: the input of the publisher
    plocal,     \* per publish call: the locals of retryWithBackoff and of its fn
    pout,       \* per publish call: what publish returned or threw
    plog,       \* per publish call: what it did (client calls, connections,
                \* entries of retryWithBackoff, attempts, sleeps)
    discordPublisher,  \* the DiscordPublisher singleton: client and isReady
    platform,   \* the platforms: posts created, Discord clients created
    dryLog      \* publisher input -> the outputs of its dry-run publishes

ledger == <<requests, drafts, results>>
calls == <<pc, input, loc, out, snap, attempted>>
orchestrator == <<requests, drafts, results, pc, input, loc, out, snap, attempted, now,
                  published, prev>>
publishers == <<ppc, pinput, plocal, pout, plog, discordPublisher, platform, dryLog>>
vars == <<requests, drafts, results, pc, input, loc, out, snap, attempted, config, now,
          published, prev, ppc, pinput, plocal, pout, plog, discordPublisher, platform,
          dryLog>>

----------------------------------------------------------------------------
(* Bounds of the model *)

MaxClock == 2
\* The posts (tweets, messages) the platforms accept in one run.
MaxPosts == 3
\* The Discord clients created in one run.
MaxClients == 2

----------------------------------------------------------------------------
(* Values *)

Procs == {"p1", "p2"}
SeqProcs == {"p1"}
Publishes == {"c1", "c2"}
SeqPublishes == {"c1"}

TargetPlatform == {"x", "discord"}
RequestIds == {"r1"}
EmptyStr == <<>>
Undefined == <<"<undefined>">>
Null == <<"<null>">>
NoRow == [present |-> FALSE]

Min(a, b) == IF a < b THEN a ELSE b

\* The request ids a caller may send: the valid ones and the empty string.
InputRequestIds == RequestIds \cup {""}

\* The targets arrays a caller may send: every array of at most as many
\* entries as there are platforms (each set of platforms in each order, the
\* arrays naming a platform twice, and the empty array).
TargetLists == UNION {[1..n -> TargetPlatform] : n \in 0..Cardinality(TargetPlatform)}

\* A NormalizedContent of the given body and tags.
Content(body, tags) ==
    [body |-> body, primaryKeyword |-> "k", canonicalUrl |-> "u", tags |-> tags]

\* Content payloads: two that differ only in the order of tags, and one
\* with another body.
Contents == {Content("a", <<1, 2>>), Content("a", <<2, 1>>), Content("b", <<1, 2>>)}

\* options.discord_channel_id as the callers of the model send it: absent,
\* so that the channel is the configured default one.
ChannelIds == {Undefined}
PublishOptions ==
    [dry_run : BOOLEAN, force_retry_failed_targets : BOOLEAN,
     discord_channel_id : ChannelIds]

\* config.discord.defaultChannelId: DISCORD_DEFAULT_CHANNEL_ID, or '' when
\* the variable is unset.
\* config.retry
DefaultRetry ==
    [maxAttempts |-> 3, initialDelayMs |-> 1000, maxDelayMs |-> 10000,
     backoffMultiplier |-> 2]

\* The configurations of the orchestrator runs: with a bot token, with and
\* without a default channel.
Configs ==
    [defaultChannelId : {EmptyStr, <<"ch0">>}, botToken : {<<"token">>},
     retry : {DefaultRetry}]

\* The configurations of the publisher runs: config.discord.botToken is
\* DISCORD_BOT_TOKEN, or '' when the variable is unset.
PublisherConfigs ==
    [defaultChannelId : {<<"ch0">>}, botToken : {EmptyStr, <<"token">>},
     retry : {DefaultRetry}]

\* Error messages the platform clients may fail with (an Error may carry no
\* message).
XClientErrors == {EmptyStr, <<"boom">>}
DiscordClientErrors == {<<"boom">>}

----------------------------------------------------------------------------
(* utils/hash: generateContentHash *)

RECURSIVE Insert(_, _)
Insert(s, e) ==
    IF s = <<>> THEN <<e>>
    ELSE IF e <= Head(s) THEN <<e>> \o s
    ELSE <<Head(s)>> \o Insert(Tail(s), e)

RECURSIVE Sort(_)
Sort(s) == IF s = <<>> THEN <<>> ELSE Insert(Sort(Tail(s)), Head(s))

\* A content payload is a record of the fields it holds: an optional field
\* that is absent is not in its domain.
Has(content, f) == f \in DOMAIN content

\* The fields holding arrays of strings.
ArrayFields == {"links", "mediaUrls", "secondaryKeywords", "tags"}

\* Array.prototype.sort() sorts in place: the content object the hash was
\* computed from holds its array fields sorted afterwards.
SortedInPlace(content) ==
    [f \in DOMAIN content |-> IF f \in ArrayFields THEN Sort(content[f]) ELSE content[f]]

\* Object.keys(stableContent)
StableKeys ==
    {"body", "brandVoice", "canonicalUrl", "cta", "links", "mediaUrls", "metadata",
     "primaryKeyword", "secondaryKeywords", "tags", "topic"}

\* {}
EmptyObject == [k \in {} |-> ""]

\* content.f || dflt for a string field.
StringOr(content, f, dflt) ==
    IF Has(content, f) /\ content[f] # "" THEN content[f] ELSE dflt

\* (the same leaving the order as it is)
UnsortedOrEmpty(content, f) == IF Has(content, f) THEN content[f] ELSE <<>>

\* content.f?.sort() || []
SortedOrEmpty(content, f) == IF Has(content, f) THEN Sort(content[f]) ELSE <<>>

\* Lines 35-47: stableContent. A required field the payload lacks is
\* undefined.
stableContent(content) ==
    [f \in StableKeys |->
        CASE f \in {"body", "canonicalUrl", "primaryKeyword"} ->
                 IF Has(content, f) THEN content[f] ELSE Undefined
          [] f = "brandVoice" -> StringOr(content, f, "professional")
          [] f \in {"cta", "topic"} -> StringOr(content, f, "")
          [] f \in ArrayFields -> SortedOrEmpty(content, f)
          [] f = "metadata" -> IF Has(content, f) THEN content[f] ELSE EmptyObject]

\* JSON.stringify(value, propertyList): an array replacer is the list of
\* the property names that are serialized, in every object of the value,
\* the nested ones included (arrays are serialized whole).
Stringify(value, propertyList) ==
    [k \in DOMAIN value \cap propertyList |->
        IF k = "metadata"
        THEN [m \in DOMAIN value[k] \cap propertyList |-> value[k][m]]
        ELSE value[k]]

\* The digest of the serialization; sha256 is taken as injective, so the
\* serialized string stands for the digest.
generateContentHash(content) ==
    <<"sha256", Stringify(stableContent(content), StableKeys)>>

----------------------------------------------------------------------------
(* tools/seo-social-compose: the drafts of a content *)

seoSocialCompose(content) ==
    [x |-> IF content.body = "a"
           THEN [mode |-> "single", posts |-> 1]
           ELSE [mode |-> "thread", posts |-> 2],
     discord |-> [embed |-> <<"embed", content.body>>]]

----------------------------------------------------------------------------
(* store/queries *)

\* v || null
OrNull(v) == IF v = Undefined \/ v = EmptyStr \/ v = Null THEN Null ELSE v
\* v || undefined
OrUndefined(v) == IF v = Undefined \/ v = EmptyStr \/ v = Null THEN Undefined ELSE v

\* An ISO-8601 string with millisecond precision and a timestamptz with
\* microsecond precision.
IsoOf(ms) == <<"iso", ms>>
TimestamptzOf(iso) == <<"tstz", iso[2] * 1000>>
DateToIso(tstz) == <<"iso", tstz[2] \div 1000>>

\* The parameter list of the INSERT of insertPostResult.
RowOf(tr) ==
    [target |-> tr.target,
     status |-> tr.status,
     platform_id |-> OrNull(tr.platform_id),
     platform_url |-> OrNull(tr.platform_url),
     error_message |-> OrNull(tr.error_message),
     posted_at |-> IF OrNull(tr.posted_at) = Null THEN Null
                   ELSE TimestamptzOf(tr.posted_at)]

\* The row mapping of findResultsByRequestId.
ResultOf(row) ==
    [target |-> row.target,
     status |-> row.status,
     platform_id |-> OrUndefined(row.platform_id),
     platform_url |-> OrUndefined(row.platform_url),
     error_message |-> OrUndefined(row.error_message),
     posted_at |-> IF row.posted_at = Null THEN Undefined
                   ELSE DateToIso(row.posted_at)]

findRequestById(requestId) == requests[requestId]

\* (the same with an update that is not restricted to the row of the target)
UpsertRowAnyTarget(rows, row) ==
    IF \E i \in 1..Len(rows) : rows[i].target = row.target
    THEN [i \in 1..Len(rows) |-> row]
    ELSE Append(rows, row)

\* INSERT ... ON CONFLICT (request_id, target) DO UPDATE: the row of the
\* target is replaced where it stands (created_at is kept), or appended.
UpsertRow(rows, row) ==
    IF \E i \in 1..Len(rows) : rows[i].target = row.target
    THEN [i \in 1..Len(rows) |->
            IF rows[i].target = row.target THEN row ELSE rows[i]]
    ELSE Append(rows, row)

\* (the same as a plain INSERT, without the conflict clause)
insertPostResultAppend(rows, targetResult) == Append(rows, RowOf(targetResult))

insertPostResult(rows, targetResult) == UpsertRow(rows, RowOf(targetResult))

findResultsByRequestId(requestId) ==
    [i \in 1..Len(results[requestId]) |-> ResultOf(results[requestId][i])]

\* (the same without the status filter)
AnyTargetSet(requestId) ==
    {results[requestId][i].target : i \in 1..Len(results[requestId])}

\* (the same taking in the declared targets that have no row)
FailedOrMissingTargetSet(requestId) ==
    {t \in TargetPlatform :
        \/ \E i \in 1..Len(results[requestId]) :
              results[requestId][i].target = t /\ results[requestId][i].status = "failed"
        \/ /\ \E i \in 1..Len(requests[requestId].targets_json) :
                 requests[requestId].targets_json[i] = t
           /\ \A i \in 1..Len(results[requestId]) : results[requestId][i].target # t}

\* SELECT target ... WHERE status = 'failed' (no ORDER BY: the set of targets).
FailedTargetSet(requestId) ==
    {results[requestId][i].target : i \in
        {j \in 1..Len(results[requestId]) : results[requestId][j].status = "failed"}}

\* The orders in which the rows of findFailedTargets may come back.
findFailedTargets(requestId) ==
    {s \in [1..Cardinality(FailedTargetSet(requestId)) -> FailedTargetSet(requestId)] :
        \A i, j \in DOMAIN s : i # j => s[i] # s[j]}

\* (the same without the partial branch)
listRecentPostsStatusNoPartial(rows, targets) ==
    LET successCount == Cardinality({i \in 1..Len(rows) : rows[i].status = "success"})
    IN  IF successCount = Len(targets) THEN "success" ELSE "failed"

\* listRecentPosts, lines 161-173: the overall status of a request row,
\* from its targets_json and the post_results rows joined to it.
listRecentPostsStatus(rows, targets) ==
    LET successCount == Cardinality({i \in 1..Len(rows) : rows[i].status = "success"})
    IN  IF successCount = Len(targets) THEN "success"
        ELSE IF successCount > 0 THEN "partial"
        ELSE "failed"

----------------------------------------------------------------------------
(* tools/publish-post: computeOverallStatus *)

SuccessCount(rs) == Cardinality({i \in 1..Len(rs) : rs[i].status = "success"})

computeOverallStatus(rs, targets) ==
    IF SuccessCount(rs) = 0 THEN "failed"
    ELSE IF SuccessCount(rs) = Len(targets) THEN "success"
    ELSE "partial"

----------------------------------------------------------------------------
(* publishers: what one publish call hands back to publishToTargets *)

TweetUrl(id) == <<"https://twitter.com/i/web/status/">> \o id

\* XPublisher.publish, dry run: one placeholder per post of the draft.
XDryRun(draft) ==
    [ok |-> TRUE,
     platform_ids |-> [i \in 1..draft.posts |-> <<"dry_run_tweet_", ToString(i - 1)>>],
     platform_urls |-> [i \in 1..draft.posts |-> TweetUrl(<<"dry_run_tweet_", ToString(i - 1)>>)],
     error |-> Undefined]

\* XPublisher.publish, real: the ids the platform assigned (n numbers the
\* publish), or the last error of retryWithBackoff.
XReal(draft, n) ==
    {[ok |-> TRUE,
      platform_ids |-> [i \in 1..draft.posts |-> <<"tweet", ToString(n), ToString(i)>>],
      platform_urls |-> [i \in 1..draft.posts |-> TweetUrl(<<"tweet", ToString(n), ToString(i)>>)],
      error |-> Undefined]}
    \cup {[ok |-> FALSE, platform_ids |-> <<>>, platform_urls |-> <<>>, error |-> e] :
            e \in XClientErrors}

\* (the same without the dry-run branch)
XPublishReal(draft, dry_run, n) == XReal(draft, n)

XPublish(draft, dry_run, n) ==
    IF dry_run THEN {XDryRun(draft)} ELSE XReal(draft, n)

\* DiscordPublisher.publish, dry run.
DiscordDryRun(channel_id) ==
    [ok |-> TRUE,
     platform_id |-> <<"dry_run_message_id">>,
     platform_url |-> <<"https://discord.com/channels/@me/">> \o channel_id \o <<"/dry_run">>,
     error |-> Undefined]

\* DiscordPublisher.publish, real: message.id and message.url, or the error
\* of ensureClient or the last error of retryWithBackoff.
DiscordReal(channel_id, n) ==
    {[ok |-> TRUE,
      platform_id |-> <<"message", ToString(n)>>,
      platform_url |-> <<"https://discord.com/channels/">> \o channel_id \o <<"message", ToString(n)>>,
      error |-> Undefined]}
    \cup {[ok |-> FALSE, platform_id |-> Undefined, platform_url |-> Undefined, error |-> e] :
            e \in DiscordClientErrors}

DiscordPublish(channel_id, dry_run, n) ==
    IF dry_run THEN {DiscordDryRun(channel_id)} ELSE DiscordReal(channel_id, n)

----------------------------------------------------------------------------
(* tools/publish-post: the results publishToTargets pushes *)

SuccessResult(target, platform_id, platform_url, posted_at) ==
    [target |-> target, status |-> "success",
     platform_id |-> platform_id, platform_url |-> platform_url,
     error_message |-> Undefined, posted_at |-> posted_at]

\* (the same with the error swallowed)
FailedResultAsSuccess(target, errorMessage) ==
    [target |-> target, status |-> "success",
     platform_id |-> Undefined, platform_url |-> Undefined,
     error_message |-> Undefined, posted_at |-> Undefined]

\* Lines 198-208: the result pushed by the catch block.
FailedResult(target, errorMessage) ==
    [target |-> target, status |-> "failed",
     platform_id |-> Undefined, platform_url |-> Undefined,
     error_message |-> errorMessage, posted_at |-> Undefined]

\* platform_ids[0] of an array that may be empty
First(arr) == IF Len(arr) = 0 THEN Undefined ELSE arr[1]

\* opts.discord_channel_id || config.discord.defaultChannelId
ChannelOf(opts) ==
    IF opts.discord_channel_id = Undefined \/ opts.discord_channel_id = EmptyStr
    THEN config.defaultChannelId ELSE opts.discord_channel_id

----------------------------------------------------------------------------
(* The call slots *)

NoInput == [request_id |-> "", content |-> [body |-> "", tags |-> <<>>],
            targets |-> <<>>,
            options |-> [dry_run |-> FALSE, force_retry_failed_targets |-> FALSE,
                         discord_channel_id |-> <<"<undefined>">>]]

NoLoc == [path |-> "", content |-> [body |-> "", tags |-> <<>>],
          content_hash |-> <<>>, existingResults |-> <<>>,
          targets |-> <<>>, i |-> 0, results |-> <<>>, j |-> 0]

NoOut == [kind |-> "none", path |-> "", error |-> <<>>, content_hash |-> <<>>,
          overall_status |-> "", per_target_results |-> <<>>]

Response(path, content_hash, overall_status, per_target_results) ==
    [kind |-> "response", path |-> path, error |-> <<>>, content_hash |-> content_hash,
     overall_status |-> overall_status, per_target_results |-> per_target_results]

Thrown(kind, message) ==
    [kind |-> kind, path |-> "", error |-> message, content_hash |-> <<>>,
     overall_status |-> "", per_target_results |-> <<>>]

\* An error message is the sequence of its parts.
MismatchError ==
    <<"Request ID ", "content mismatch", ": same request_id with different content">>

NoPrev == [set |-> FALSE, input |-> NoInput, per_target_results |-> <<>>]

\* (the same with the request_id checked alone)
ValidInputLax(req) == req.request_id # ""

\* PublishInputSchema.parse: request_id min(1), targets min(1) of the enum,
\* content of NormalizedContentSchema (body min(1)).
ValidInput(req) ==
    /\ req.request_id # ""
    /\ Len(req.targets) >= 1
    /\ \A i \in 1..Len(req.targets) : req.targets[i] \in TargetPlatform
    /\ req.content.body # ""

OrchestratorIdle ==
    /\ requests = [r \in RequestIds |-> NoRow]
    /\ drafts = [r \in RequestIds |-> <<>>]
    /\ results = [r \in RequestIds |-> <<>>]
    /\ pc = [p \in Procs |-> "idle"]
    /\ input = [p \in Procs |-> NoInput]
    /\ loc = [p \in Procs |-> NoLoc]
    /\ out = [p \in Procs |-> NoOut]
    /\ snap = [p \in Procs |-> <<>>]
    /\ attempted = [p \in Procs |-> <<>>]
    /\ now = 0
    /\ published = [r \in RequestIds |-> [t \in TargetPlatform |-> 0]]
    /\ prev = NoPrev

----------------------------------------------------------------------------
(* tools/publish-post: publishPost, one action per step between two awaits *)

\* Line 41: existingRequest.content_hash !== content_hash
ContentMismatchNever(existingRequest, content_hash) == FALSE
ContentMismatch(existingRequest, content_hash) ==
    existingRequest.content_hash # content_hash

\* Line 51: if (opts.force_retry_failed_targets)
ShouldRetryAlways(opts) == TRUE
ShouldRetry(opts) == opts.force_retry_failed_targets

Idle(p) == pc[p] = "idle"
Ended(p) == pc[p] = "done"

\* Lines 22-45 and 90: validation, fingerprint, lookup of the request_id and
\* the fingerprint comparison.
Call(p, req) ==
    /\ Idle(p)
    /\ input' = [input EXCEPT ![p] = req]
    /\ snap' = [snap EXCEPT ![p] = ledger]
    /\ attempted' = [attempted EXCEPT ![p] = <<>>]
    /\ UNCHANGED <<requests, drafts, results, config, publishers, now, published, prev>>
    /\ IF ~ValidInput(req)
       THEN /\ pc' = [pc EXCEPT ![p] = "done"]
            /\ out' = [out EXCEPT ![p] = Thrown("validation", <<"ZodError">>)]
            /\ loc' = [loc EXCEPT ![p] = NoLoc]
       ELSE LET content_hash == generateContentHash(req.content)
                content == SortedInPlace(req.content)
                existingRequest == findRequestById(req.request_id)
                l == [NoLoc EXCEPT !.content = content, !.content_hash = content_hash]
            IN  IF existingRequest.present
                THEN IF ContentMismatch(existingRequest, content_hash)
                     THEN /\ pc' = [pc EXCEPT ![p] = "done"]
                          /\ out' = [out EXCEPT ![p] = Thrown("error", MismatchError)]
                          /\ loc' = [loc EXCEPT ![p] = NoLoc]
                     ELSE /\ pc' = [pc EXCEPT ![p] = "findResults"]
                          /\ out' = [out EXCEPT ![p] = NoOut]
                          /\ loc' = [loc EXCEPT ![p] = l]
                ELSE /\ pc' = [pc EXCEPT ![p] = "insertRequest"]
                     /\ out' = [out EXCEPT ![p] = NoOut]
                     /\ loc' = [loc EXCEPT ![p] = [l EXCEPT !.path = "new"]]

\* Lines 48-51 and 78-87: read the stored results; without the force flag
\* return them.
FindResults(p) ==
    /\ pc[p] = "findResults"
    /\ LET existingResults == findResultsByRequestId(input[p].request_id)
       IN  IF ShouldRetry(input[p].options)
           THEN /\ pc' = [pc EXCEPT ![p] = "findFailed"]
                /\ loc' = [loc EXCEPT ![p].existingResults = existingResults]
                /\ out' = out
           ELSE /\ pc' = [pc EXCEPT ![p] = "done"]
                /\ loc' = [loc EXCEPT ![p] = NoLoc]
                /\ out' = [out EXCEPT ![p] =
                            Response("replay", loc[p].content_hash,
                                     computeOverallStatus(existingResults, input[p].targets),
                                     existingResults)]
    /\ UNCHANGED <<requests, drafts, results, input, snap, attempted, config, publishers, now, published, prev>>

\* Lines 52-58 and 78-87: read the failed targets; retry them when there are
\* some, return the stored results otherwise.
FindFailed(p) ==
    /\ pc[p] = "findFailed"
    /\ \E failedTargets \in findFailedTargets(input[p].request_id) :
         IF Len(failedTargets) > 0
         THEN /\ pc' = [pc EXCEPT ![p] = "publish"]
              /\ loc' = [loc EXCEPT ![p].path = "retry", ![p].targets = failedTargets,
                                    ![p].i = 1, ![p].results = <<>>]
              /\ out' = out
         ELSE /\ pc' = [pc EXCEPT ![p] = "done"]
              /\ loc' = [loc EXCEPT ![p] = NoLoc]
              /\ out' = [out EXCEPT ![p] =
                          Response("replay", loc[p].content_hash,
                                   computeOverallStatus(loc[p].existingResults, input[p].targets),
                                   loc[p].existingResults)]
    /\ UNCHANGED <<requests, drafts, results, input, snap, attempted, config, publishers, now, published, prev>>

\* (the same without the primary key)
PrimaryKeyFree(requestId) == FALSE

\* post_requests.request_id is the primary key: the INSERT of a recorded
\* request_id fails.
PrimaryKeyViolation(requestId) == requests[requestId].present

\* (the same going on without the INSERT)
InsertRequestSkipped(p) ==
    /\ pc[p] = "insertRequest"
    /\ pc' = [pc EXCEPT ![p] = "insertDrafts"]
    /\ UNCHANGED <<requests, drafts, results, input, loc, out, snap, attempted, config,
                   publishers, now, published, prev>>

\* Line 91: INSERT INTO post_requests (request_id is the primary key).
InsertRequest(p) ==
    /\ pc[p] = "insertRequest"
    /\ IF PrimaryKeyViolation(input[p].request_id)
       THEN /\ pc' = [pc EXCEPT ![p] = "done"]
            /\ loc' = [loc EXCEPT ![p] = NoLoc]
            /\ out' = [out EXCEPT ![p] = Thrown("error", <<"duplicate key value">>)]
            /\ requests' = requests
       ELSE /\ pc' = [pc EXCEPT ![p] = "insertDrafts"]
            /\ loc' = loc
            /\ out' = out
            /\ requests' = [requests EXCEPT ![input[p].request_id] =
                             [present |-> TRUE,
                              content_json |-> loc[p].content,
                              content_hash |-> loc[p].content_hash,
                              targets_json |-> input[p].targets,
                              options_json |-> input[p].options]]
    /\ UNCHANGED <<drafts, results, input, snap, attempted, config, publishers, now, published, prev>>

\* Lines 95-106: compose the drafts and INSERT INTO post_drafts.
InsertDrafts(p) ==
    /\ pc[p] = "insertDrafts"
    /\ drafts' = [drafts EXCEPT ![input[p].request_id] =
                    Append(@, seoSocialCompose(loc[p].content))]
    /\ pc' = [pc EXCEPT ![p] = "publish"]
    /\ loc' = [loc EXCEPT ![p].targets = input[p].targets, ![p].i = 1, ![p].results = <<>>]
    /\ UNCHANGED <<requests, results, input, out, snap, attempted, config, publishers, now, published, prev>>

\* (the same leaving the loop after the first result)
AfterPushLeaving(p, tr) ==
    /\ loc' = [loc EXCEPT ![p].results = Append(@, tr), ![p].i = @ + 1, ![p].j = 1]
    /\ pc' = [pc EXCEPT ![p] = "store"]

\* Where the loop of publishToTargets goes after pushing a result.
AfterPush(p, tr) ==
    /\ loc' = [loc EXCEPT ![p].results = Append(@, tr), ![p].i = @ + 1,
                          ![p].j = IF loc[p].i = Len(loc[p].targets) THEN 1 ELSE 0]
    /\ pc' = [pc EXCEPT ![p] = IF loc[p].i = Len(loc[p].targets) THEN "store" ELSE "publish"]

\* Lines 157-209: one iteration of the loop of publishToTargets.
PublishTarget(p) ==
    /\ pc[p] = "publish"
    /\ loc[p].i <= Len(loc[p].targets)
    /\ LET target == loc[p].targets[loc[p].i]
           opts == input[p].options
           theDrafts == seoSocialCompose(loc[p].content)
           channelId == ChannelOf(opts)
           rid == input[p].request_id
       IN  IF target = "discord" /\ channelId = EmptyStr
           THEN /\ AfterPush(p, FailedResult(target, <<"Discord channel ID is required">>))
                /\ attempted' = [attempted EXCEPT ![p] =
                                   Append(@, [target |-> target, called |-> FALSE, ok |-> FALSE])]
                /\ UNCHANGED <<now, published>>
           ELSE \E o \in (IF target = "x" THEN XPublish(theDrafts.x, opts.dry_run, now + 1)
                          ELSE DiscordPublish(channelId, opts.dry_run, now + 1)) :
                  /\ attempted' = [attempted EXCEPT ![p] =
                                     Append(@, [target |-> target, called |-> TRUE, ok |-> o.ok])]
                  /\ IF o.ok
                     THEN /\ now < MaxClock
                          /\ now' = now + 1
                          /\ published' =
                               IF opts.dry_run THEN published
                               ELSE [published EXCEPT ![rid][target] = @ + 1]
                          /\ AfterPush(p,
                               IF target = "x"
                               THEN SuccessResult(target, First(o.platform_ids),
                                                  First(o.platform_urls), IsoOf(now + 1))
                               ELSE SuccessResult(target, o.platform_id,
                                                  o.platform_url, IsoOf(now + 1)))
                     ELSE /\ AfterPush(p, FailedResult(target, o.error))
                          /\ UNCHANGED <<now, published>>
    /\ UNCHANGED <<requests, drafts, results, input, out, snap, config, publishers, prev>>

\* Lines 61-63 and 112-126: one insertPostResult; after the last one a new
\* request returns the results it built, a retry goes on to read the ledger.
StoreResult(p) ==
    /\ pc[p] = "store"
    /\ loc[p].j <= Len(loc[p].results)
    /\ results' = [results EXCEPT ![input[p].request_id] =
                     insertPostResult(@, loc[p].results[loc[p].j])]
    /\ IF loc[p].j < Len(loc[p].results)
       THEN /\ loc' = [loc EXCEPT ![p].j = @ + 1]
            /\ UNCHANGED <<pc, out>>
       ELSE IF loc[p].path = "retry"
            THEN /\ pc' = [pc EXCEPT ![p] = "reread"]
                 /\ loc' = [loc EXCEPT ![p].j = @ + 1]
                 /\ out' = out
            ELSE /\ pc' = [pc EXCEPT ![p] = "done"]
                 /\ loc' = [loc EXCEPT ![p] = NoLoc]
                 /\ out' = [out EXCEPT ![p] =
                             Response("new", loc[p].content_hash,
                                      computeOverallStatus(loc[p].results, input[p].targets),
                                      loc[p].results)]
    /\ UNCHANGED <<requests, drafts, input, snap, attempted, config, publishers, now, published, prev>>

\* Lines 66-74: read the updated results and return them.
RereadResults(p) ==
    /\ pc[p] = "reread"
    /\ LET updatedResults == findResultsByRequestId(input[p].request_id)
       IN  out' = [out EXCEPT ![p] =
                     Response("retry", loc[p].content_hash,
                              computeOverallStatus(updatedResults, input[p].targets),
                              updatedResults)]
    /\ pc' = [pc EXCEPT ![p] = "done"]
    /\ loc' = [loc EXCEPT ![p] = NoLoc]
    /\ UNCHANGED <<requests, drafts, results, input, snap, attempted, config, publishers, now, published, prev>>

\* The process dies: every call in flight ends without a response; the
\* ledger keeps what was written.
Crash ==
    /\ \E p \in Procs : ~Idle(p) /\ ~Ended(p)
    /\ pc' = [p \in Procs |-> IF Idle(p) THEN "idle" ELSE "done"]
    /\ out' = [p \in Procs |-> IF Idle(p) \/ Ended(p) THEN out[p] ELSE Thrown("crash", <<>>)]
    /\ loc' = [p \in Procs |-> NoLoc]
    /\ input' = [p \in Procs |-> IF Idle(p) \/ Ended(p) THEN input[p] ELSE NoInput]
    /\ snap' = [p \in Procs |-> IF Idle(p) \/ Ended(p) THEN snap[p] ELSE <<>>]
    /\ attempted' = [p \in Procs |-> IF Idle(p) \/ Ended(p) THEN attempted[p] ELSE <<>>]
    /\ UNCHANGED <<requests, drafts, results, config, publishers, now, published, prev>>

\* The caller has the outcome of the call; the slot is free for the next call.
Forget(p) ==
    /\ Ended(p)
    /\ pc' = [pc EXCEPT ![p] = "idle"]
    /\ input' = [input EXCEPT ![p] = NoInput]
    /\ out' = [out EXCEPT ![p] = NoOut]
    /\ snap' = [snap EXCEPT ![p] = <<>>]
    /\ attempted' = [attempted EXCEPT ![p] = <<>>]
    /\ prev' = IF out[p].kind = "response" /\ out[p].path = "new"
               THEN [set |-> TRUE, input |-> input[p],
                     per_target_results |-> out[p].per_target_results]
               ELSE NoPrev
    /\ UNCHANGED <<requests, drafts, results, loc, config, publishers, now, published>>

\* String.prototype.includes on an error message.
Includes(message, part) == \E i \in 1..Len(message) : message[i] = part

\* (the same without the conflict branch)
ReplyWithoutConflict(o) ==
    IF o.kind = "response"
    THEN [code |-> 200, error |-> "", message |-> <<>>, result |-> o]
    ELSE IF o.kind = "validation"
    THEN [code |-> 400, error |-> "Validation error", message |-> <<>>, result |-> NoOut]
    ELSE [code |-> 500, error |-> "Internal server error", message |-> o.error,
          result |-> NoOut]

\* server.ts lines 74-95 and 156-162: the reply of POST /tools/publish_post
\* to an outcome of publishPost: the result, or the error caught by the
\* route (ZodError, content mismatch) or by the global error handler.
Reply(o) ==
    IF o.kind = "response"
    THEN [code |-> 200, error |-> "", message |-> <<>>, result |-> o]
    ELSE IF o.kind = "validation"
    THEN [code |-> 400, error |-> "Validation error", message |-> <<>>, result |-> NoOut]
    ELSE IF Includes(o.error, "content mismatch")
    THEN [code |-> 409, error |-> "Conflict", message |-> o.error, result |-> NoOut]
    ELSE [code |-> 500, error |-> "Internal server error", message |-> o.error,
          result |-> NoOut]

\* The error a query of the pool rejects with when the ledger is
\* unavailable.
LedgerError == <<"connection terminated">>

\* (the same caught and turned into failed results of the targets)
LedgerFailureAsResults(p, e) ==
    /\ pc' = [pc EXCEPT ![p] = "done"]
    /\ loc' = [loc EXCEPT ![p] = NoLoc]
    /\ out' = [out EXCEPT ![p] =
                 Response("new", loc[p].content_hash, "failed",
                          [i \in 1..Len(input'[p].targets) |->
                              FailedResult(input'[p].targets[i], e)])]

\* A rejected query is awaited outside any try block: the error leaves
\* publishPost.
LedgerFailure(p, e) ==
    /\ pc' = [pc EXCEPT ![p] = "done"]
    /\ loc' = [loc EXCEPT ![p] = NoLoc]
    /\ out' = [out EXCEPT ![p] = Thrown("error", e)]

\* Lines 24-35: the input is valid and findRequestById rejects.
LookupFails(p, req) ==
    /\ Idle(p)
    /\ ValidInput(req)
    /\ input' = [input EXCEPT ![p] = req]
    /\ snap' = [snap EXCEPT ![p] = ledger]
    /\ attempted' = [attempted EXCEPT ![p] = <<>>]
    /\ LedgerFailure(p, LedgerError)
    /\ UNCHANGED <<requests, drafts, results, config, publishers, now, published, prev>>

\* Lines 48, 52, 62, 66, 91, 106 and 113: findResultsByRequestId,
\* findFailedTargets, insertPostRequest, insertPostDrafts or insertPostResult
\* rejects.
LedgerFails(p) ==
    /\ pc[p] \in {"findResults", "findFailed", "insertRequest", "insertDrafts", "store",
                  "reread"}
    /\ input' = input
    /\ LedgerFailure(p, LedgerError)
    /\ UNCHANGED <<requests, drafts, results, snap, attempted, config, publishers, now,
                   published, prev>>

DefaultOptions ==
    [dry_run |-> FALSE, force_retry_failed_targets |-> FALSE,
     discord_channel_id |-> Undefined]

\* Requests that name a platform outside the enum or carry a content that
\* fails NormalizedContentSchema (an empty body).
MalformedInputs ==
    [request_id : RequestIds,
     content : {Content("a", <<1, 2>>)},
     targets : {<<"facebook">>, <<"x", "facebook">>},
     options : {DefaultOptions}]
    \cup
    [request_id : RequestIds,
     content : {Content("", <<1, 2>>)},
     targets : {<<"x">>},
     options : {DefaultOptions}]

\* The inputs of the calls: every well-formed one, and the malformed ones
\* (empty request_id, empty targets, unknown target, invalid content) with
\* default options.
PublishInputs ==
    {req \in [request_id : InputRequestIds, content : Contents,
              targets : TargetLists, options : PublishOptions] :
        ValidInput(req) \/ req.options = DefaultOptions}
    \cup MalformedInputs

Step(p) ==
    \/ \E req \in PublishInputs : Call(p, req)
    \/ FindResults(p)
    \/ FindFailed(p)
    \/ InsertRequest(p)
    \/ InsertDrafts(p)
    \/ PublishTarget(p)
    \/ StoreResult(p)
    \/ RereadResults(p)
    \/ Forget(p)

\* Calls issued one after the other by one client, with crashes.
Next ==
    \/ \E p \in SeqProcs : Step(p)
    \/ Crash

----------------------------------------------------------------------------
(* publishers: XPublisher.publish and DiscordPublisher.publish step by     *)
(* step, with retryWithBackoff and the platform clients                    *)

NoDraft == [mode |-> "", posts |-> 0]

\* XPublishInput: the X drafts seoSocialCompose builds, with and without
\* dry_run.
XPublishInputs ==
    [target : {"x"},
     draft : {seoSocialCompose(content).x : content \in Contents},
     channel_id : {Undefined},
     dry_run : BOOLEAN]

\* DiscordPublishInput (the embed does not take part in the control flow).
DiscordPublishInputs ==
    [target : {"discord"},
     draft : {NoDraft},
     channel_id : {<<"ch0">>, <<"ch1">>},
     dry_run : BOOLEAN]

PublisherInputs == XPublishInputs \cup DiscordPublishInputs
DryRunInputs == {in \in PublisherInputs : in.dry_run}

NoPInput == [target |-> "", draft |-> NoDraft, channel_id |-> Undefined, dry_run |-> FALSE]
NoPLocal == [attempt |-> 0, delay |-> 0, lastError |-> Undefined, client |-> 0,
             platform_ids |-> <<>>]
NoPOut == [ok |-> FALSE, error |-> Undefined]
NoPLog == [clientCalls |-> 0, connects |-> 0, retries |-> 0, attempts |-> 0,
           sleeps |-> <<>>, errors |-> <<>>]

PubIdle ==
    /\ ppc = [c \in Publishes |-> "idle"]
    /\ pinput = [c \in Publishes |-> NoPInput]
    /\ plocal = [c \in Publishes |-> NoPLocal]
    /\ pout = [c \in Publishes |-> NoPOut]
    /\ plog = [c \in Publishes |-> NoPLog]
    /\ discordPublisher = [client |-> 0, isReady |-> FALSE]
    /\ platform = [posts |-> 0, clients |-> 0]
    /\ dryLog = [in \in DryRunInputs |-> <<>>]

\* The ghost log of dry-run outputs keeps the first output and the latest.
Logged(log, o) == IF Len(log) < 2 THEN Append(log, o) ELSE <<log[1], o>>

\* x.publisher line 135: if (dry_run)
XDryRunOff(in) == FALSE
XDryRunMode(in) == in.dry_run

\* The number of posts fn sends: postTweet(draft.posts[0]) for a single
\* draft, postThread(draft.posts) for a thread.
PostsToSend(draft) == IF draft.mode = "single" THEN 1 ELSE draft.posts

\* retry.ts lines 12-18: retryWithBackoff starts its first attempt.
EnterRetry(c, client) ==
    /\ ppc' = [ppc EXCEPT ![c] = "attempt"]
    /\ plocal' = [plocal EXCEPT ![c] =
                    [NoPLocal EXCEPT !.attempt = 1,
                                     !.delay = config.retry.initialDelayMs,
                                     !.client = client]]

\* (the same keeping the first failure)
FirstError(lastError, e) == IF lastError = Undefined THEN e ELSE lastError

\* retry.ts line 20: lastError = error.
LastError(lastError, e) == e

\* (the same with no last attempt)
LastAttemptNever(attempt, retry) == FALSE

\* retry.ts line 22: if (attempt === config.maxAttempts)
LastAttempt(attempt, retry) == attempt = retry.maxAttempts

\* (the same without growth)
NextDelayConstant(delay, retry) == delay

\* retry.ts line 36: delay = Math.min(delay * backoffMultiplier, maxDelayMs)
NextDelay(delay, retry) == Min(delay * retry.backoffMultiplier, retry.maxDelayMs)

\* retry.ts lines 19-37 and 40: the attempt threw e; after the last attempt
\* lastError is thrown, before it the loop goes to sleep.
Caught(c, e, clientCalls) ==
    /\ plog' = [plog EXCEPT ![c].clientCalls = @ + clientCalls,
                            ![c].errors = Append(@, e)]
    /\ plocal' = [plocal EXCEPT ![c].lastError = LastError(@, e)]
    /\ IF LastAttempt(plocal[c].attempt, config.retry)
       THEN /\ ppc' = [ppc EXCEPT ![c] = "done"]
            /\ pout' = [pout EXCEPT ![c] = [ok |-> FALSE, error |-> plocal'[c].lastError]]
       ELSE /\ ppc' = [ppc EXCEPT ![c] = "sleep"]
            /\ pout' = pout

\* x.publisher lines 129-144: XPublisher.publish up to the first attempt.
XPublisherPublish(c, in) ==
    /\ ppc[c] = "idle"
    /\ in.target = "x"
    /\ pinput' = [pinput EXCEPT ![c] = in]
    /\ IF XDryRunMode(in)
       THEN /\ ppc' = [ppc EXCEPT ![c] = "done"]
            /\ pout' = [pout EXCEPT ![c] = XDryRun(in.draft)]
            /\ dryLog' = [dryLog EXCEPT ![in] = Logged(@, XDryRun(in.draft))]
            /\ UNCHANGED <<plocal, plog>>
       ELSE /\ EnterRetry(c, 0)
            /\ plog' = [plog EXCEPT ![c].retries = @ + 1, ![c].attempts = 1]
            /\ UNCHANGED <<pout, dryLog>>
    /\ UNCHANGED <<orchestrator, config, discordPublisher, platform>>

\* x.publisher lines 38-46, 48-70 and 145-158: one call of the X client
\* inside fn. The platform creates the tweet, and fn returns after the last
\* post of the draft; or the client call fails and fn throws.
PostTweet(c) ==
    /\ ppc[c] = "attempt"
    /\ pinput[c].target = "x"
    /\ \/ /\ platform.posts < MaxPosts
          /\ platform' = [platform EXCEPT !.posts = @ + 1]
          /\ plog' = [plog EXCEPT ![c].clientCalls = @ + 1]
          /\ LET ids == Append(plocal[c].platform_ids,
                               <<"tweet", ToString(platform.posts + 1)>>)
             IN  IF Len(ids) = PostsToSend(pinput[c].draft)
                 THEN /\ ppc' = [ppc EXCEPT ![c] = "done"]
                      /\ pout' = [pout EXCEPT ![c] =
                                    [ok |-> TRUE,
                                     platform_ids |-> ids,
                                     platform_urls |-> [i \in 1..Len(ids) |-> TweetUrl(ids[i])],
                                     error |-> Undefined]]
                      /\ plocal' = [plocal EXCEPT ![c].platform_ids = <<>>]
                 ELSE /\ plocal' = [plocal EXCEPT ![c].platform_ids = ids]
                      /\ UNCHANGED <<ppc, pout>>
       \/ /\ \E e \in XClientErrors : Caught(c, e, 1)
          /\ platform' = platform
    /\ UNCHANGED <<orchestrator, config, pinput, discordPublisher, dryLog>>

\* (the same with a timer that never fires)
SleepNeverWakes(c) ==
    /\ ppc[c] = "sleep"
    /\ UNCHANGED vars

\* (the same with the next attempt resuming after the posts already sent)
SleepResuming(c) ==
    /\ ppc[c] = "sleep"
    /\ plog' = [plog EXCEPT ![c].sleeps = Append(@, plocal[c].delay),
                            ![c].attempts = @ + 1]
    /\ plocal' = [plocal EXCEPT
                    ![c].delay = NextDelay(plocal[c].delay, config.retry),
                    ![c].attempt = @ + 1]
    /\ ppc' = [ppc EXCEPT ![c] = "attempt"]
    /\ UNCHANGED <<orchestrator, config, pinput, pout, discordPublisher, platform, dryLog>>

\* retry.ts lines 35-36 and 15: sleep(delay), the next delay, the next
\* attempt.
Sleep(c) ==
    /\ ppc[c] = "sleep"
    /\ plog' = [plog EXCEPT ![c].sleeps = Append(@, plocal[c].delay),
                            ![c].attempts = @ + 1]
    /\ plocal' = [plocal EXCEPT
                    ![c].delay = NextDelay(plocal[c].delay, config.retry),
                    ![c].attempt = @ + 1,
                    ![c].platform_ids = <<>>]
    /\ ppc' = [ppc EXCEPT ![c] = "attempt"]
    /\ UNCHANGED <<orchestrator, config, pinput, pout, discordPublisher, platform, dryLog>>

\* x.publisher lines 245-263 and 206-221: DiscordPublisher.publish up to
\* the first attempt, or up to the login of a new client.
DiscordPublisherPublish(c, in) ==
    /\ ppc[c] = "idle"
    /\ in.target = "discord"
    /\ pinput' = [pinput EXCEPT ![c] = in]
    /\ IF in.dry_run
       THEN /\ ppc' = [ppc EXCEPT ![c] = "done"]
            /\ pout' = [pout EXCEPT ![c] = DiscordDryRun(in.channel_id)]
            /\ dryLog' = [dryLog EXCEPT ![in] = Logged(@, DiscordDryRun(in.channel_id))]
            /\ UNCHANGED <<plocal, plog, discordPublisher, platform>>
       ELSE IF discordPublisher.client # 0 /\ discordPublisher.isReady
       THEN /\ EnterRetry(c, discordPublisher.client)
            /\ plog' = [plog EXCEPT ![c].retries = @ + 1, ![c].attempts = 1]
            /\ UNCHANGED <<pout, dryLog, discordPublisher, platform>>
       ELSE IF config.botToken = EmptyStr
       THEN /\ ppc' = [ppc EXCEPT ![c] = "done"]
            /\ pout' = [pout EXCEPT ![c] =
                          [ok |-> FALSE, error |-> <<"Discord bot token is not configured">>]]
            /\ UNCHANGED <<plocal, plog, dryLog, discordPublisher, platform>>
       ELSE /\ platform.clients < MaxClients
            /\ platform' = [platform EXCEPT !.clients = @ + 1]
            /\ discordPublisher' = [discordPublisher EXCEPT !.client = platform.clients + 1]
            /\ plog' = [plog EXCEPT ![c].connects = @ + 1]
            /\ ppc' = [ppc EXCEPT ![c] = "login"]
            /\ UNCHANGED <<plocal, pout, dryLog>>
    /\ UNCHANGED <<orchestrator, config>>

\* x.publisher lines 227-232: the ready event; ensureClient resolves with
\* this.client and publish enters retryWithBackoff.
ClientReady(c) ==
    /\ ppc[c] = "login"
    /\ discordPublisher.client # 0
    /\ discordPublisher' = [discordPublisher EXCEPT !.isReady = TRUE]
    /\ EnterRetry(c, discordPublisher.client)
    /\ plog' = [plog EXCEPT ![c].retries = @ + 1, ![c].attempts = 1]
    /\ UNCHANGED <<orchestrator, config, pinput, pout, platform, dryLog>>

\* x.publisher lines 223-225 and 238: the initialization times out or the
\* login is rejected; ensureClient rejects and publish throws.
LoginFails(c) ==
    /\ ppc[c] = "login"
    /\ \E e \in {<<"Discord client initialization timeout">>, <<"login rejected">>} :
         pout' = [pout EXCEPT ![c] = [ok |-> FALSE, error |-> e]]
    /\ ppc' = [ppc EXCEPT ![c] = "done"]
    /\ UNCHANGED <<orchestrator, config, pinput, plocal, plog, discordPublisher, platform,
                   dryLog>>

\* x.publisher lines 264-313: one run of fn: channels.fetch, then
\* channel.send. The fetch fails or finds no text channel, the send fails,
\* or the message is created.
SendEmbed(c) ==
    /\ ppc[c] = "attempt"
    /\ pinput[c].target = "discord"
    /\ \/ /\ platform.posts < MaxPosts
          /\ platform' = [platform EXCEPT !.posts = @ + 1]
          /\ plog' = [plog EXCEPT ![c].clientCalls = @ + 2]
          /\ ppc' = [ppc EXCEPT ![c] = "done"]
          /\ pout' = [pout EXCEPT ![c] =
                        [ok |-> TRUE,
                         platform_id |-> <<"message", ToString(platform.posts + 1)>>,
                         platform_url |-> <<"https://discord.com/channels/">>
                                          \o pinput[c].channel_id
                                          \o <<"message", ToString(platform.posts + 1)>>,
                         error |-> Undefined]]
          /\ plocal' = plocal
       \/ /\ \E e \in DiscordClientErrors : Caught(c, e, 1)
          /\ platform' = platform
       \/ /\ Caught(c, <<"Channel ">> \o pinput[c].channel_id
                       \o <<" not found or is not a text channel">>, 1)
          /\ platform' = platform
       \/ /\ \E e \in DiscordClientErrors : Caught(c, e, 2)
          /\ platform' = platform
    /\ UNCHANGED <<orchestrator, config, pinput, discordPublisher, dryLog>>

\* x.publisher lines 322-329: destroy.
Destroy ==
    /\ discordPublisher.client # 0
    /\ discordPublisher' = [client |-> 0, isReady |-> FALSE]
    /\ UNCHANGED <<orchestrator, config, ppc, pinput, plocal, pout, plog, platform, dryLog>>

\* The caller of publish has its outcome; the slot is free for the next
\* publish.
PublishReturned(c) ==
    /\ ppc[c] = "done"
    /\ ppc' = [ppc EXCEPT ![c] = "idle"]
    /\ pinput' = [pinput EXCEPT ![c] = NoPInput]
    /\ plocal' = [plocal EXCEPT ![c] = NoPLocal]
    /\ pout' = [pout EXCEPT ![c] = NoPOut]
    /\ plog' = [plog EXCEPT ![c] = NoPLog]
    /\ UNCHANGED <<orchestrator, config, discordPublisher, platform, dryLog>>

PubStep(c) ==
    \/ \E in \in PublisherInputs : XPublisherPublish(c, in)
    \/ PostTweet(c)
    \/ Sleep(c)
    \/ \E in \in PublisherInputs : DiscordPublisherPublish(c, in)
    \/ ClientReady(c)
    \/ LoginFails(c)
    \/ SendEmbed(c)
    \/ PublishReturned(c)

\* Publishes issued one after the other against the two publishers.
NextPub ==
    \/ \E c \in SeqPublishes : PubStep(c)
    \/ Destroy

----------------------------------------------------------------------------
(* Specifications *)

\* The state after construction: an empty ledger, no call in flight.
Init ==
    /\ OrchestratorIdle
    /\ config \in Configs
    /\ PubIdle

\* publishPost calls over the ledger.
Spec == Init /\ [][Next]_vars

\* The same state, under every configuration of the bot token.
InitPub ==
    /\ OrchestratorIdle
    /\ config \in PublisherConfigs
    /\ PubIdle

\* publish calls on the two publishers.
SpecPub == InitPub /\ [][NextPub]_vars

\* The inputs of the racing calls: well-formed requests with two contents,
\* three targets arrays and every combination of options.
RaceInputs ==
    [request_id : RequestIds,
     content : {Content("a", <<1, 2>>), Content("b", <<1, 2>>)},
     targets : {<<"x">>, <<"x", "discord">>, <<"discord">>},
     options : PublishOptions]

\* Two clients: while the request_id is not recorded both may call
\* publishPost at any time (their calls interleave at every await); once it
\* is recorded the calls come one after the other.
StepRace(p) ==
    \/ \E req \in RaceInputs :
         /\ \/ ~requests[req.request_id].present
            \/ p \in SeqProcs /\ \A q \in Procs \ {p} : Idle(q)
         /\ Call(p, req)
    \/ FindResults(p)
    \/ FindFailed(p)
    \/ InsertRequest(p)
    \/ InsertDrafts(p)
    \/ PublishTarget(p)
    \/ StoreResult(p)
    \/ RereadResults(p)
    \/ Forget(p)

NextRace == \E p \in Procs : StepRace(p)

\* publishPost calls racing for a new request_id, then calls in sequence.
SpecRace == Init /\ [][NextRace]_vars

\* RetryConfig values: retry policies with maxAttempts >= 1 and
\* backoffMultiplier >= 1, the initial delay below and above the cap.
RetryPolicies ==
    [maxAttempts : 1..4,
     initialDelayMs : {1000, 12000},
     maxDelayMs : {1500, 10000},
     backoffMultiplier : 1..3]

InitRetry ==
    /\ OrchestratorIdle
    /\ config \in [defaultChannelId : {<<"ch0">>}, botToken : {<<"token">>},
                    retry : RetryPolicies]
    /\ PubIdle

\* retryWithBackoff around the X client, as XPublisher.publish calls it.
NextRetry ==
    \E c \in SeqPublishes :
        \/ \E in \in XPublishInputs : XPublisherPublish(c, in)
        \/ PostTweet(c)
        \/ Sleep(c)
        \/ PublishReturned(c)

\* retryWithBackoff under every retry policy.
SpecRetry == InitRetry /\ [][NextRetry]_vars

\* The inputs of the concurrent retries: one request, declared for both
\* platforms, with and without force_retry_failed_targets.
RetryRaceInputs ==
    [request_id : RequestIds,
     content : {Content("a", <<1, 2>>)},
     targets : {<<"x", "discord">>},
     options : [dry_run : {FALSE}, force_retry_failed_targets : BOOLEAN,
                discord_channel_id : ChannelIds]]

\* Two clients: the first one creates the request and then sends forced
\* retries one after the other; the second one sends a forced retry while a
\* call of the first one is in flight, and the two calls interleave at
\* every await.
StepRetryRace(p) ==
    \/ \E req \in RetryRaceInputs :
         /\ IF requests[req.request_id].present
            THEN /\ req.options.force_retry_failed_targets
                 /\ \/ p \in SeqProcs /\ \A q \in Procs \ {p} : Idle(q)
                    \/ p \notin SeqProcs /\ \E q \in SeqProcs : ~Idle(q) /\ ~Ended(q)
            ELSE /\ ~req.options.force_retry_failed_targets
                 /\ p \in SeqProcs
         /\ Call(p, req)
    \/ FindResults(p)
    \/ FindFailed(p)
    \/ InsertRequest(p)
    \/ InsertDrafts(p)
    \/ PublishTarget(p)
    \/ StoreResult(p)
    \/ RereadResults(p)
    \/ Forget(p)

NextRetryRace == \E p \in Procs : StepRetryRace(p)

\* A publishPost call, then forced retries that run concurrently.
SpecRetryRace == Init /\ [][NextRetryRace]_vars

\* The inputs of the calls over a ledger that may fail: two contents, one
\* or both platforms, with and without force_retry_failed_targets, and an
\* input without targets.
FaultInputs ==
    [request_id : RequestIds,
     content : {Content("a", <<1, 2>>), Content("b", <<1, 2>>)},
     targets : {<<>>, <<"x">>, <<"x", "discord">>},
     options : [dry_run : {FALSE}, force_retry_failed_targets : BOOLEAN,
                discord_channel_id : ChannelIds]]

\* Calls issued one after the other; every query of the ledger may reject.
NextFault ==
    \E p \in SeqProcs :
        \/ \E req \in FaultInputs : Call(p, req)
        \/ \E req \in FaultInputs : LookupFails(p, req)
        \/ FindResults(p)
        \/ FindFailed(p)
        \/ InsertRequest(p)
        \/ InsertDrafts(p)
        \/ PublishTarget(p)
        \/ StoreResult(p)
        \/ RereadResults(p)
        \/ LedgerFails(p)
        \/ Forget(p)

\* publishPost calls over a ledger that may be unavailable.
SpecFault == Init /\ [][NextFault]_vars

\* The inputs of the calls that are replayed: two contents, one platform,
\* both, and one platform named twice, with every combination of options.
ReplayInputs ==
    [request_id : RequestIds,
     content : {Content("a", <<1, 2>>), Content("b", <<1, 2>>)},
     targets : {<<"x">>, <<"x", "discord">>, <<"x", "x">>},
     options : PublishOptions]

\* Well-formed calls issued one after the other by one client, with
\* crashes.
NextReplay ==
    \/ \E p \in SeqProcs :
          \/ \E req \in ReplayInputs : Call(p, req)
          \/ FindResults(p)
          \/ FindFailed(p)
          \/ InsertRequest(p)
          \/ InsertDrafts(p)
          \/ PublishTarget(p)
          \/ StoreResult(p)
          \/ RereadResults(p)
          \/ Forget(p)
    \/ Crash

\* A publishPost call, dry or real, complete or cut by a crash, then its
\* replays and retries.
SpecReplay == Init /\ [][NextReplay]_vars

\* The inputs of the concurrent Discord publishes: real publishes to one
\* channel.
DiscordRaceInputs ==
    [target : {"discord"}, draft : {NoDraft}, channel_id : {<<"ch0">>}, dry_run : {FALSE}]

\* Two callers of DiscordPublisher.publish: the first one publishes again
\* and again; the second one starts a publish while the first one waits
\* for its client to be ready, and the two interleave at every await.
StepDiscordRace(c) ==
    \/ \E in \in DiscordRaceInputs :
         /\ \/ c \in SeqPublishes
            \/ \E d \in SeqPublishes : ppc[d] = "login"
         /\ DiscordPublisherPublish(c, in)
    \/ ClientReady(c)
    \/ LoginFails(c)
    \/ SendEmbed(c)
    \/ Sleep(c)
    \/ PublishReturned(c)

NextDiscordRace ==
    \/ \E c \in Publishes : StepDiscordRace(c)
    \/ Destroy

\* Concurrent publishes on the DiscordPublisher singleton, with destroy.
SpecDiscordRace == InitPub /\ [][NextDiscordRace]_vars

\* The inputs of the calls that run down to the platform clients: one
\* content, one or both platforms, with and without
\* force_retry_failed_targets.
LiveInputs ==
    [request_id : RequestIds,
     content : {Content("a", <<1, 2>>)},
     targets : {<<"x">>, <<"x", "discord">>},
     options : [dry_run : {FALSE}, force_retry_failed_targets : BOOLEAN,
                discord_channel_id : ChannelIds]]

\* The bounds of the model leave room for the call: the clock for a success
\* of every target it may go through, the platform for a Discord client.
RoomFor(req) ==
    /\ now + (IF requests[req.request_id].present
              THEN Cardinality(FailedTargetSet(req.request_id))
              ELSE Len(req.targets)) <= MaxClock
    /\ \/ platform.clients < MaxClients
       \/ discordPublisher.client # 0 /\ discordPublisher.isReady

\* part_002 lines 159-163 and 174-187: the input publishToTargets hands to
\* the publisher of the current target.
PublisherInputOf(p) ==
    IF loc[p].targets[loc[p].i] = "x"
    THEN [target |-> "x", draft |-> seoSocialCompose(loc[p].content).x,
          channel_id |-> Undefined, dry_run |-> input[p].options.dry_run]
    ELSE [target |-> "discord", draft |-> NoDraft,
          channel_id |-> ChannelOf(input[p].options),
          dry_run |-> input[p].options.dry_run]

\* The current target is discord and no channel id is given or configured.
ChannelMissing(p) ==
    loc[p].targets[loc[p].i] = "discord" /\ ChannelOf(input[p].options) = EmptyStr

\* Lines 161 and 182: publishToTargets calls publish of the publisher of the
\* current target and awaits it.
InvokePublisher(p, c) ==
    /\ pc[p] = "publish"
    /\ loc[p].i <= Len(loc[p].targets)
    /\ ~ChannelMissing(p)
    /\ \/ XPublisherPublish(c, PublisherInputOf(p))
       \/ DiscordPublisherPublish(c, PublisherInputOf(p))

\* Lines 176-180 and 198-208: without a channel id the iteration throws
\* before the publisher is called; the catch block pushes a failed result.
ChannelRequired(p, c) ==
    /\ pc[p] = "publish"
    /\ loc[p].i <= Len(loc[p].targets)
    /\ ChannelMissing(p)
    /\ ppc[c] = "idle"
    /\ AfterPush(p, FailedResult("discord", <<"Discord channel ID is required">>))
    /\ attempted' = [attempted EXCEPT ![p] =
                       Append(@, [target |-> "discord", called |-> FALSE, ok |-> FALSE])]
    /\ UNCHANGED <<requests, drafts, results, input, out, snap, config, publishers, now,
                   published, prev>>

\* Lines 166-172, 189-195 and 198-208: publish has returned or thrown; the
\* iteration pushes a success result or the catch block a failed one.
PublishSettled(p, c) ==
    /\ pc[p] = "publish"
    /\ loc[p].i <= Len(loc[p].targets)
    /\ ppc[c] = "done"
    /\ LET target == loc[p].targets[loc[p].i]
           o == pout[c]
       IN  /\ attempted' = [attempted EXCEPT ![p] =
                              Append(@, [target |-> target, called |-> TRUE, ok |-> o.ok])]
           /\ IF o.ok
              THEN /\ now < MaxClock
                   /\ now' = now + 1
                   /\ published' = [published EXCEPT ![input[p].request_id][target] = @ + 1]
                   /\ AfterPush(p,
                        IF target = "x"
                        THEN SuccessResult(target, First(o.platform_ids),
                                           First(o.platform_urls), IsoOf(now + 1))
                        ELSE SuccessResult(target, o.platform_id,
                                           o.platform_url, IsoOf(now + 1)))
              ELSE /\ AfterPush(p, FailedResult(target, o.error))
                   /\ UNCHANGED <<now, published>>
    /\ ppc' = [ppc EXCEPT ![c] = "idle"]
    /\ pinput' = [pinput EXCEPT ![c] = NoPInput]
    /\ plocal' = [plocal EXCEPT ![c] = NoPLocal]
    /\ pout' = [pout EXCEPT ![c] = NoPOut]
    /\ plog' = [plog EXCEPT ![c] = NoPLog]
    /\ UNCHANGED <<requests, drafts, results, input, out, snap, config, prev,
                   discordPublisher, platform, dryLog>>

\* The steps of a call in flight and of the publish it awaits: each is the
\* continuation of an await whose operation has returned or failed.
Progress(p, c) ==
    \/ FindResults(p)
    \/ FindFailed(p)
    \/ InsertRequest(p)
    \/ InsertDrafts(p)
    \/ InvokePublisher(p, c)
    \/ ChannelRequired(p, c)
    \/ PostTweet(c)
    \/ Sleep(c)
    \/ ClientReady(c)
    \/ LoginFails(c)
    \/ SendEmbed(c)
    \/ PublishSettled(p, c)
    \/ StoreResult(p)
    \/ RereadResults(p)
    \/ LedgerFails(p)

\* Calls issued one after the other, each running its publishes through
\* retryWithBackoff and the platform clients; every query of the ledger and
\* every call of a platform client may fail.
NextLive ==
    \E p \in SeqProcs, c \in SeqPublishes :
        \/ \E req \in LiveInputs : RoomFor(req) /\ Call(p, req)
        \/ \E req \in LiveInputs : RoomFor(req) /\ LookupFails(p, req)
        \/ Progress(p, c)
        \/ Forget(p)

\* The event loop runs the continuation of every await whose operation has
\* settled: a step of the call in flight is taken while one is possible.
Fairness == \A p \in SeqProcs, c \in SeqPublishes : WF_vars(Progress(p, c))

\* publishPost calls down to the platform clients, under the assumption
\* that every ledger operation and every client call returns or fails.
SpecLive == Init /\ [][NextLive]_vars /\ Fairness

\* NormalizedContent: the payload with the required fields alone.
BaseContent == [body |-> "a", primaryKeyword |-> "k", canonicalUrl |-> "u"]

\* The payload with the field f holding v.
With(content, f, v) ==
    [g \in DOMAIN content \cup {f} |-> IF g = f THEN v ELSE content[g]]

\* The values of the fields: other strings for the required ones, the
\* default and another string for the optional ones, arrays in both orders,
\* metadata with no entry, with an entry in two values and with an entry
\* whose key is also the name of a field of the content.
StringValues(f) ==
    CASE f = "body" -> {"b"}
      [] f = "primaryKeyword" -> {"k2"}
      [] f = "canonicalUrl" -> {"u2"}
      [] f = "cta" -> {"", "c"}
      [] f = "topic" -> {"", "t"}
      [] f = "brandVoice" -> {"professional", "bold"}
ArrayValues == {<<>>, <<1, 2>>, <<2, 1>>}
MetadataValues == {EmptyObject, [source |-> "s1"], [source |-> "s2"], [topic |-> "t"]}

\* The payloads that differ from content in at most one field.
Vary(content) ==
    {content}
    \cup UNION {{With(content, f, v) : v \in StringValues(f)} :
                 f \in StableKeys \ (ArrayFields \cup {"metadata"})}
    \cup {With(content, f, v) : f \in ArrayFields, v \in ArrayValues}
    \cup {With(content, "metadata", m) : m \in MetadataValues}

\* The payloads that differ from the base one in at most two fields.
HashPayloads == UNION {Vary(content) : content \in Vary(BaseContent)}

\* logger.ts lines 33-51: generateContentHash(content) is called; the
\* caller holds the payload as the call left it, and the fingerprint.
Fingerprint(p, content) ==
    /\ Idle(p)
    /\ pc' = [pc EXCEPT ![p] = "done"]
    /\ input' = [input EXCEPT ![p] = [NoInput EXCEPT !.content = content]]
    /\ loc' = [loc EXCEPT ![p] = [NoLoc EXCEPT !.content = SortedInPlace(content),
                                               !.content_hash = generateContentHash(content)]]
    /\ UNCHANGED <<requests, drafts, results, out, snap, attempted, config, publishers, now,
                   published, prev>>

\* The caller drops the payload and the fingerprint.
Dropped(p) ==
    /\ Ended(p)
    /\ pc' = [pc EXCEPT ![p] = "idle"]
    /\ input' = [input EXCEPT ![p] = NoInput]
    /\ loc' = [loc EXCEPT ![p] = NoLoc]
    /\ UNCHANGED <<requests, drafts, results, out, snap, attempted, config, publishers, now,
                   published, prev>>

NextHash ==
    \E p \in Procs :
        \/ \E content \in HashPayloads : Fingerprint(p, content)
        \/ Dropped(p)

\* generateContentHash applied to pairs of payloads.
SpecHash == Init /\ [][NextHash]_vars

----------------------------------------------------------------------------
(* What the claims speak of *)

Range(seq) == {seq[i] : i \in 1..Len(seq)}

\* The slot holds a call that passed validation and has not crashed.
Started(p) == ~Idle(p) /\ ValidInput(input[p])
Returned(p) == Ended(p) /\ out[p].kind = "response"

\* The ledger as the call of the slot found it.
RequestAtStart(p) == snap[p][1][input[p].request_id]
DraftsAtStart(p) == snap[p][2][input[p].request_id]
ResultsAtStart(p) == snap[p][3][input[p].request_id]

Existed(p) == RequestAtStart(p).present
SameFingerprint(p) ==
    RequestAtStart(p).content_hash = generateContentHash(input[p].content)
Forced(p) == input[p].options.force_retry_failed_targets

\* The targets whose publisher's publish the call of the slot has called.
Invoked(p) == {attempted[p][i].target : i \in
                  {j \in 1..Len(attempted[p]) : attempted[p][j].called}}
\* How many times the call of the slot went through target t.
TimesAttempted(p, t) ==
    Cardinality({i \in 1..Len(attempted[p]) : attempted[p][i].target = t})

StatusIn(rows, st) == {rows[i].target : i \in {j \in 1..Len(rows) : rows[j].status = st}}

----------------------------------------------------------------------------
(* Claims *)

\* C1: for every request_id and target, over all the calls issued one after
\* the other (replays, forced retries, calls after a crash), at most one real
\* invocation of the target's publisher has returned success.
C1_AtMostOneRealSuccess ==
    \A r \in RequestIds, t \in TargetPlatform : published[r][t] <= 1

\* C2: a call for a recorded request_id with the stored fingerprint and
\* without force_retry_failed_targets calls no publisher and writes nothing
\* to the ledger: request, drafts and results are as the call found them, and
\* the call returns the stored results.
C2_ReplayHasNoEffect ==
    \A p \in Procs :
        (Started(p) /\ Existed(p) /\ SameFingerprint(p) /\ ~Forced(p)) =>
            /\ ledger = snap[p]
            /\ attempted[p] = <<>>
            /\ Ended(p) => /\ Returned(p)
                           /\ out[p].per_target_results =
                                findResultsByRequestId(input[p].request_id)

\* A replay of a request that has results, sent with the tags in another
\* order than the stored content has them.
C2_Witness ==
    \E p \in Procs :
        /\ Returned(p) /\ Existed(p) /\ SameFingerprint(p) /\ ~Forced(p)
        /\ Len(results[input[p].request_id]) = 2
        /\ input[p].content # requests[input[p].request_id].content_json

\* C3: when publishPost is called twice in a row with the same request_id,
\* content and targets, the second call (a plain replay) returns the
\* per_target_results the first call returned: the same targets in the same
\* order with the same status, platform_id, platform_url, error_message and
\* posted_at.
C3_ReplayIdentical ==
    \A p \in Procs :
        (/\ Returned(p) /\ prev.set /\ ~Forced(p)
         /\ input[p].request_id = prev.input.request_id
         /\ input[p].content = prev.input.content
         /\ input[p].targets = prev.input.targets) =>
            out[p].per_target_results = prev.per_target_results

\* C4: a call for a recorded request_id with another fingerprint ends with
\* the content-mismatch error, calls no publisher and leaves the ledger as
\* it found it, whatever its options are.
C4_ConflictRejected ==
    \A p \in Procs :
        (Started(p) /\ Existed(p) /\ ~SameFingerprint(p)) =>
            /\ Ended(p)
            /\ out[p].kind = "error"
            /\ out[p].error = MismatchError
            /\ attempted[p] = <<>>
            /\ ledger = snap[p]

\* A conflicting call that sets both force_retry_failed_targets and dry_run,
\* on a request that has a failed result.
C4_Witness ==
    \E p \in Procs :
        /\ Started(p) /\ Existed(p) /\ ~SameFingerprint(p)
        /\ Forced(p) /\ input[p].options.dry_run
        /\ StatusIn(results[input[p].request_id], "failed") # {}
        /\ out[p].error = MismatchError


\* The results a returned call is to report on: those of the targets it was
\* called with (a new request) or of the failed targets it retried.
TargetSetOf(p) ==
    IF out[p].path = "new" THEN Range(input[p].targets)
    ELSE StatusIn(ResultsAtStart(p), "failed")

ResultsFor(rs, t) == {i \in 1..Len(rs) : rs[i].target = t}

\* C5: within one call every target of the target set is attempted, whatever
\* the outcomes of the other targets are, and has exactly one result in the
\* returned per_target_results.
C5_OneResultPerTarget ==
    \A p \in Procs :
        (Returned(p) /\ out[p].path \in {"new", "retry"}) =>
            \A t \in TargetSetOf(p) :
                /\ TimesAttempted(p, t) >= 1
                /\ Cardinality(ResultsFor(out[p].per_target_results, t)) = 1

\* The overall status of the results the ledger holds for a request against
\* the targets declared when the request was created.
LedgerStatus(r) ==
    LET declared == Range(requests[r].targets_json)
        succeeded == declared \cap StatusIn(results[r], "success")
    IN  IF succeeded = {} THEN "failed"
        ELSE IF succeeded = declared THEN "success"
        ELSE "partial"

\* C6: the overall_status every call returns is the status of the ledger's
\* results against the declared target set: success if every declared
\* target has a success result, failed if none has, partial otherwise.
C6_StatusFromLedger ==
    \A p \in Procs :
        Returned(p) => out[p].overall_status = LedgerStatus(input[p].request_id)

\* C7: a call executed with dry_run = true returns overall_status dry_run.
C7_DryRunStatus ==
    \A p \in Procs :
        (Returned(p) /\ input[p].options.dry_run) => out[p].overall_status = "dry_run"

\* C8: a publish with dry_run = true, of XPublisher and of DiscordPublisher,
\* returns at once with success: it calls no platform client, establishes
\* no client connection and does not enter retryWithBackoff; and the
\* dry-run publishes of one input all return the same placeholder
\* identifiers and URLs, whatever was published in between.
C8_DryRunTouchesNothing ==
    /\ \A c \in Publishes :
          (ppc[c] # "idle" /\ pinput[c].dry_run) =>
              /\ ppc[c] = "done"
              /\ pout[c].ok
              /\ plog[c] = NoPLog
              /\ plocal[c] = NoPLocal
    /\ \A in \in DryRunInputs :
          \A i, j \in DOMAIN dryLog[in] : dryLog[in][i] = dryLog[in][j]

\* C8 happens: a second dry-run publish of an X thread and a second dry-run
\* publish to a Discord channel have returned, after real posts were
\* created and while a Discord client is connected.
C8_Witness ==
    /\ \E c \in Publishes : ppc[c] = "done" /\ pinput[c].dry_run
    /\ \E in \in DryRunInputs :
          in.target = "x" /\ in.draft.mode = "thread" /\ Len(dryLog[in]) = 2
    /\ \E in \in DryRunInputs : in.target = "discord" /\ Len(dryLog[in]) = 2
    /\ platform.posts > 0
    /\ discordPublisher.isReady

\* C9 as stated: a forced retry of a recorded request with the stored
\* fingerprint calls the publishers of exactly the targets recorded as
\* failed, and behaves as a plain replay when there is none.
C9_RetryInvokesExactlyFailed ==
    \A p \in Procs :
        (Returned(p) /\ Existed(p) /\ SameFingerprint(p) /\ Forced(p)) =>
            /\ Invoked(p) = StatusIn(ResultsAtStart(p), "failed")
            /\ StatusIn(ResultsAtStart(p), "failed") = {} =>
                   (ledger = snap[p] /\ attempted[p] = <<>>)

\* The failed targets that are gone through without a publisher call: discord
\* when neither the options nor the configuration give a channel id.
WithoutChannel(p) ==
    IF ChannelOf(input[p].options) = EmptyStr THEN {"discord"} ELSE {}

\* C9 amended: a forced retry goes through exactly the targets recorded as
\* failed, each once; it calls no publisher for a target recorded as success
\* or without a record; it calls the publisher of every failed target, save
\* that of discord when no channel id is given or configured (that target is
\* recorded as failed again); with no failed target it is a plain replay.
C9_RetryAttemptsExactlyFailed ==
    \A p \in Procs :
        (Started(p) /\ Existed(p) /\ SameFingerprint(p) /\ Forced(p)) =>
            LET failed == StatusIn(ResultsAtStart(p), "failed")
            IN  /\ \A i \in 1..Len(attempted[p]) : attempted[p][i].target \in failed
                /\ \A t \in TargetPlatform : TimesAttempted(p, t) <= 1
                /\ Invoked(p) \cap WithoutChannel(p) = {}
                /\ Returned(p) =>
                     /\ \A t \in failed : TimesAttempted(p, t) = 1
                     /\ Invoked(p) = failed \ WithoutChannel(p)
                     /\ failed = {} =>
                          /\ ledger = snap[p]
                          /\ out[p].per_target_results =
                               findResultsByRequestId(input[p].request_id)

\* A forced retry, on a request with a success and a failed result, that
\* called the publisher of the failed target alone.
C9_Witness ==
    \E p \in Procs :
        /\ Returned(p) /\ Existed(p) /\ SameFingerprint(p) /\ Forced(p)
        /\ StatusIn(ResultsAtStart(p), "success") # {}
        /\ StatusIn(ResultsAtStart(p), "failed") # {}
        /\ Invoked(p) = StatusIn(ResultsAtStart(p), "failed")

\* C10: a forced retry leaves the record of every target that was recorded
\* as success as it was: same status, platform_id, platform_url, posted_at.
C10_RetryKeepsSuccessRecords ==
    \A p \in Procs :
        (Started(p) /\ Existed(p) /\ SameFingerprint(p) /\ Forced(p)) =>
            \A i \in 1..Len(ResultsAtStart(p)) :
                ResultsAtStart(p)[i].status = "success" =>
                    /\ Len(results[input[p].request_id]) >= i
                    /\ results[input[p].request_id][i] = ResultsAtStart(p)[i]

\* A forced retry that turned a failed record into a success next to a
\* record that was a success before.
C10_Witness ==
    \E p \in Procs :
        /\ Returned(p) /\ Existed(p) /\ SameFingerprint(p) /\ Forced(p)
        /\ StatusIn(ResultsAtStart(p), "success") # {}
        /\ StatusIn(ResultsAtStart(p), "failed") # {}
        /\ StatusIn(results[input[p].request_id], "failed") = {}

\* Every target declared when the request was created has a success record.
AllDeclaredSucceeded(r) ==
    Range(requests[r].targets_json) \subseteq StatusIn(results[r], "success")

\* C11: the response of a forced retry that retried at least one target
\* reports the full result set of the request: per_target_results holds the
\* record of every target that has one, and overall_status is computed over
\* all of them, so that it is success once every declared target (the
\* retried ones and the ones that had succeeded before) has a success record.
C11_RetryReportsFullSet ==
    \A p \in Procs :
        (Returned(p) /\ out[p].path = "retry") =>
            /\ out[p].per_target_results = findResultsByRequestId(input[p].request_id)
            /\ AllDeclaredSucceeded(input[p].request_id) =>
                   out[p].overall_status = "success"

\* The targets whose iteration of publishToTargets ended in the catch block
\* (the publisher threw, or the Discord channel id was missing).
CaughtTargets(p) ==
    {attempted[p][i].target : i \in {j \in 1..Len(attempted[p]) : ~attempted[p][j].ok}}

\* C12: a call that passed validation, met no fingerprint conflict and no
\* ledger failure and was not cut by a crash ends with a response, whatever
\* the publishers did; every target whose publisher failed, or that lacked
\* a Discord channel id, has a result with status failed in
\* per_target_results.
C12_FailuresAreResults ==
    \A p \in Procs :
        (/\ Ended(p) /\ Started(p)
         /\ ~(Existed(p) /\ ~SameFingerprint(p))) =>
            /\ Returned(p)
            /\ \A i \in 1..Len(attempted[p]) :
                  ~attempted[p][i].ok =>
                      \E k \in 1..Len(out[p].per_target_results) :
                          /\ out[p].per_target_results[k].target = attempted[p][i].target
                          /\ out[p].per_target_results[k].status = "failed"

\* A call for a new request returned although the X publisher failed and
\* the Discord channel id was missing: both targets are reported as failed.
C12_Witness ==
    \E p \in Procs :
        /\ Returned(p) /\ out[p].path = "new"
        /\ CaughtTargets(p) = {"x", "discord"}
        /\ \E i \in 1..Len(attempted[p]) : ~attempted[p][i].called
        /\ out[p].overall_status = "failed"

\* What the claim calls a malformed publish request.
Malformed(req) ==
    \/ req.request_id = ""
    \/ req.targets = <<>>
    \/ \E i \in 1..Len(req.targets) : req.targets[i] \notin {"x", "discord"}
    \/ req.content.body = ""

\* C13: a malformed publish request (empty request_id, empty targets list,
\* a target outside {x, discord}, content failing the schema) ends at once
\* with a validation error: nothing was read from the ledger, nothing was
\* written to it and no publisher was invoked.
C13_MalformedRejected ==
    \A p \in Procs :
        (~Idle(p) /\ input[p] # NoInput /\ Malformed(input[p])) =>
            /\ Ended(p)
            /\ out[p].kind = "validation"
            /\ loc[p] = NoLoc
            /\ attempted[p] = <<>>
            /\ ledger = snap[p]

\* A request naming an unknown platform next to a known one was rejected
\* while the ledger held a request with that request_id and a failed result.
C13_Witness ==
    \E p \in Procs :
        /\ Ended(p) /\ out[p].kind = "validation"
        /\ input[p].targets = <<"x", "facebook">>
        /\ requests[input[p].request_id].present
        /\ StatusIn(results[input[p].request_id], "failed") # {}

\* The rows of post_results of request r for target t.
RowsOf(rows, t) == {i \in 1..Len(rows) : rows[i].target = t}

\* The result a call in its store loop is about to write.
Writing(p) == loc[p].results[loc[p].j]

\* C14: the ledger holds at most one result per (request_id, target); a
\* step that changes post_results is the write of one result, after which
\* the pair has exactly one record, the one written (status, platform_id,
\* platform_url, error_message, posted_at), the records of the other
\* targets are as before, and no record is gone.
C14_OneResultPerPair ==
    [][/\ \A r \in RequestIds, t \in TargetPlatform :
             /\ Cardinality(RowsOf(results'[r], t)) <= 1
             /\ Cardinality(RowsOf(results'[r], t)) >= Cardinality(RowsOf(results[r], t))
       /\ results' # results =>
             \E p \in Procs :
                 /\ pc[p] = "store"
                 /\ LET r == input[p].request_id
                        t == Writing(p).target
                    IN  /\ \A i \in RowsOf(results'[r], t) :
                              results'[r][i] = RowOf(Writing(p))
                        /\ Cardinality(RowsOf(results'[r], t)) = 1
                        /\ \A i \in 1..Len(results[r]) :
                              results[r][i].target # t => results'[r][i] = results[r][i]
                        /\ \A q \in RequestIds \ {r} : results'[q] = results[q]
      ]_vars

\* A forced retry has written the result of a target that had a record: the
\* ledger holds two records as before, that of the retried target replaced.
C14_Witness ==
    \E p \in Procs :
        /\ pc[p] = "reread"
        /\ Len(ResultsAtStart(p)) = 2
        /\ Len(results[input[p].request_id]) = 2
        /\ \E i \in 1..2 :
              /\ results[input[p].request_id][i].target = ResultsAtStart(p)[i].target
              /\ results[input[p].request_id][i] # ResultsAtStart(p)[i]
              /\ results[input[p].request_id][i].status = "success"

\* C15: once a request record is inserted its content, content hash,
\* targets and options never change, whatever calls follow or run next to
\* the inserting call (replay, conflict, forced retry, other targets or
\* options, a racing first call).
C15_RequestImmutable ==
    [][\A r \in RequestIds :
          requests[r].present =>
              /\ requests'[r].present
              /\ requests'[r].content_json = requests[r].content_json
              /\ requests'[r].content_hash = requests[r].content_hash
              /\ requests'[r].targets_json = requests[r].targets_json
              /\ requests'[r].options_json = requests[r].options_json]_vars

\* A call that lost the race for the request_id has failed on its INSERT:
\* it carried another content, other targets and other options than the
\* recorded ones, and the record is the winner's.
C15_Witness ==
    \E p \in Procs :
        /\ Ended(p) /\ out[p].error = <<"duplicate key value">>
        /\ requests[input[p].request_id].present
        /\ input[p].content # requests[input[p].request_id].content_json
        /\ input[p].targets # requests[input[p].request_id].targets_json
        /\ input[p].options # requests[input[p].request_id].options_json

\* A publish call is inside retryWithBackoff, or has left it.
InRetry(c) == plocal[c].attempt >= 1

\* retryWithBackoff raised: every attempt failed.
Raised(c) == InRetry(c) /\ ppc[c] = "done" /\ ~pout[c].ok

\* retryWithBackoff returned the value of an attempt.
Succeeded(c) == InRetry(c) /\ ppc[c] = "done" /\ pout[c].ok

\* C16: under the policy maxAttempts 3, initialDelayMs 1000,
\* backoffMultiplier 2, maxDelayMs 10000, retryWithBackoff attempts until
\* the first success or until 3 attempts have failed, sleeps exactly once
\* between two consecutive attempts, 1000 then 2000, does not sleep after
\* the last attempt, and raises after the third failure.
C16_ThreeAttemptsTwoSleeps ==
    \A c \in Publishes :
        InRetry(c) =>
            /\ plog[c].attempts = plocal[c].attempt
            /\ plog[c].attempts \in 1..3
            /\ plog[c].sleeps = SubSeq(<<1000, 2000>>, 1, plog[c].attempts - 1)
            /\ Len(plog[c].errors) =
                   IF ppc[c] = "attempt" \/ Succeeded(c)
                   THEN plog[c].attempts - 1 ELSE plog[c].attempts
            /\ ppc[c] = "sleep" => plog[c].attempts < 3
            /\ Raised(c) => plog[c].attempts = 3

\* An always-failing operation has made retryWithBackoff raise.
C16_Witness ==
    \E c \in Publishes :
        /\ Raised(c)
        /\ plog[c].attempts = 3
        /\ plog[c].sleeps = <<1000, 2000>>

RECURSIVE Pow(_, _)
\* b to the power n.
Pow(b, n) == IF n = 0 THEN 1 ELSE b * Pow(b, n - 1)

\* C17: for every retry policy with maxAttempts >= 1 and
\* backoffMultiplier >= 1 the i-th sleep of retryWithBackoff lasts
\* min(initialDelayMs * backoffMultiplier^(i-1), maxDelayMs), so that no
\* sleep is longer than maxDelayMs, also when initialDelayMs is larger.
C17_SleepsFollowPolicy ==
    \A c \in Publishes :
        \A i \in 1..Len(plog[c].sleeps) :
            plog[c].sleeps[i] =
                Min(config.retry.initialDelayMs * Pow(config.retry.backoffMultiplier, i - 1),
                    config.retry.maxDelayMs)

RECURSIVE Sum(_)
\* The sum of a sequence of numbers.
Sum(seq) == IF seq = <<>> THEN 0 ELSE Head(seq) + Sum(Tail(seq))

\* C18: for every retry policy with maxAttempts >= 1 and
\* backoffMultiplier >= 1 the sleeps of one retryWithBackoff call add up to
\* at most maxAttempts * maxDelayMs.
C18_TotalSleepBounded ==
    \A c \in Publishes :
        Sum(plog[c].sleeps) <= config.retry.maxAttempts * config.retry.maxDelayMs

\* The value of the attempt that succeeded: the identifiers of the posts
\* the platform created last, as many as the draft has.
ValueOfLastAttempt(c) ==
    IF pinput[c].target = "x"
    THEN LET n == PostsToSend(pinput[c].draft)
         IN  pout[c].platform_ids =
                 [i \in 1..n |-> <<"tweet", ToString(platform.posts - n + i)>>]
    ELSE pout[c].platform_id = <<"message", ToString(platform.posts)>>

\* C19: when retryWithBackoff exhausts its attempts the error it raises is
\* the failure of the last attempt, never an earlier one; a call in which an
\* attempt succeeds raises nothing and returns the value of that attempt.
C19_LastFailureRaised ==
    \A c \in Publishes :
        /\ Raised(c) =>
              /\ Len(plog[c].errors) = config.retry.maxAttempts
              /\ pout[c].error = plog[c].errors[Len(plog[c].errors)]
        /\ Succeeded(c) =>
              /\ pout[c].error = Undefined
              /\ ValueOfLastAttempt(c)

\* retryWithBackoff raised after attempts that failed in different ways.
C19_Witness ==
    \E c \in Publishes :
        /\ Raised(c)
        /\ plog[c].errors[1] # plog[c].errors[Len(plog[c].errors)]

\* The least number of times one iteration of publishToTargets has run the
\* platform operation: none in a dry run or without a publish call, once
\* when publish returned a success, config.retry.maxAttempts times when
\* publish returned the error retryWithBackoff raised.
PlatformAttemptsAtLeast(p, i) ==
    IF ~attempted[p][i].called \/ input[p].options.dry_run THEN 0
    ELSE IF attempted[p][i].ok THEN 1
    ELSE config.retry.maxAttempts

\* The same over all the iterations of the call for the target t.
TargetAttemptsAtLeast(p, t) ==
    Sum([i \in 1..Len(attempted[p]) |->
            IF attempted[p][i].target = t THEN PlatformAttemptsAtLeast(p, i) ELSE 0])

\* C20: within one publishPost call the platform operation of each target
\* is attempted at most config.retry.maxAttempts (3) times before the target
\* is recorded as failed.
C20_AtMostMaxAttempts ==
    \A p \in Procs :
        \A t \in TargetPlatform :
            TargetAttemptsAtLeast(p, t) <= config.retry.maxAttempts

\* The value a payload holds in a field, an absent optional field standing
\* for its default: the empty string, professional, the empty array, {}.
FieldOrDefault(content, f) ==
    IF Has(content, f) THEN content[f]
    ELSE CASE f = "brandVoice" -> "professional"
           [] f \in ArrayFields -> <<>>
           [] f = "metadata" -> EmptyObject
           [] OTHER -> ""

\* Two arrays hold the same elements, each as many times, in any order.
SameElements(a, b) ==
    /\ Len(a) = Len(b)
    /\ \A e \in Range(a) \cup Range(b) :
          Cardinality({i \in 1..Len(a) : a[i] = e}) = Cardinality({i \in 1..Len(b) : b[i] = e})

\* Two payloads have the same field values up to the order inside the
\* array fields and up to an optional field being absent or at its default.
SameUpToOrder(a, b) ==
    \A f \in StableKeys :
        IF f \in ArrayFields
        THEN SameElements(FieldOrDefault(a, f), FieldOrDefault(b, f))
        ELSE FieldOrDefault(a, f) = FieldOrDefault(b, f)

\* C21: generateContentHash returns the same fingerprint for two payloads
\* that have the same field values and differ only in the order of the
\* elements of tags, secondaryKeywords, links or mediaUrls, or in an
\* optional field being absent or holding its default.
C21_OrderAndDefaultsIgnored ==
    \A p, q \in Procs :
        Ended(p) /\ Ended(q) /\ SameUpToOrder(input[p].content, input[q].content)
            => loc[p].content_hash = loc[q].content_hash

\* Two payloads were fingerprinted that hold an array in two orders, one of
\* them with an optional field absent that the other holds at its default.
C21_Witness ==
    \E p, q \in Procs :
        /\ Ended(p) /\ Ended(q)
        /\ SameUpToOrder(input[p].content, input[q].content)
        /\ \E f \in ArrayFields :
              /\ Has(input[p].content, f) /\ Has(input[q].content, f)
              /\ input[p].content[f] # input[q].content[f]
        /\ \E f \in StableKeys : Has(input[p].content, f) /\ ~Has(input[q].content, f)
        /\ loc[p].content_hash # <<>>

\* Two payloads differ in the field f: in its value, for an array in its
\* set of elements.
DiffersIn(a, b, f) ==
    IF f \in ArrayFields
    THEN Range(FieldOrDefault(a, f)) # Range(FieldOrDefault(b, f))
    ELSE FieldOrDefault(a, f) # FieldOrDefault(b, f)

\* C22: with an injective digest, two payloads that differ in a scalar
\* field, in the element set of an array field or in an entry of metadata
\* get different fingerprints.
C22_DifferenceChangesFingerprint ==
    \A p, q \in Procs :
        /\ Ended(p) /\ Ended(q)
        /\ \E f \in StableKeys : DiffersIn(input[p].content, input[q].content, f)
        => loc[p].content_hash # loc[q].content_hash

\* C23: computing the fingerprint leaves the content payload as it was
\* submitted, the order inside its arrays included, so that the content
\* publishPost works on after the fingerprint and the content it stores in
\* the ledger are the content the caller submitted.
C23_HashLeavesContent ==
    \A p \in Procs :
        /\ loc[p].content_hash # <<>> => loc[p].content = input[p].content
        /\ pc[p] = "insertDrafts" =>
              requests[input[p].request_id].content_json = input[p].content

\* The records post_results holds for target t of request r.
RecordsOf(rows, t) == {rows[i] : i \in RowsOf(rows, t)}

\* C24: when a call upserts a result while another call is in its own
\* store loop for the same request, the write takes effect and loses
\* nothing: the records of the other targets, those the other call wrote
\* included, are kept, and the target written has exactly one record, the
\* one written last.
C24_ConcurrentUpsertsKept ==
    [][\A p, q \in Procs :
          (/\ p # q
           /\ pc[p] = "store" /\ pc[q] \in {"store", "reread"}
           /\ input[p].request_id = input[q].request_id
           /\ results' # results /\ loc'[p] # loc[p])
          => LET r == input[p].request_id
                 t == Writing(p).target
             IN  /\ \A u \in TargetPlatform \ {t} :
                       /\ RecordsOf(results'[r], u) = RecordsOf(results[r], u)
                       /\ Cardinality(RowsOf(results'[r], u)) =
                              Cardinality(RowsOf(results[r], u))
                 /\ RecordsOf(results'[r], t) = {RowOf(Writing(p))}
                 /\ Cardinality(RowsOf(results'[r], t)) = 1
      ]_vars

\* Two concurrent retries went through the two failed targets in opposite
\* orders: each has written its first result and is about to write the
\* target the other one wrote.
C24_Witness ==
    \E p, q \in Procs :
        /\ p # q
        /\ pc[p] = "store" /\ pc[q] = "store"
        /\ loc[p].j = 2 /\ loc[q].j = 2
        /\ Writing(p).target # Writing(q).target
        /\ Cardinality(RowsOf(results[input[p].request_id], Writing(p).target)) = 1
        /\ Cardinality(RowsOf(results[input[p].request_id], Writing(q).target)) = 1

\* The results that carry the error e as their error message.
ReportedIn(rs, e) == {i \in 1..Len(rs) : rs[i].error_message = e}

\* C25: a ledger operation that fails during a publishPost call (lookup,
\* request insert, draft insert, result upsert, result read) makes the call
\* fail with that error, without a response; the failure is never reported
\* or recorded as a failed result of a target.
C25_LedgerFailureIsFatal ==
    \A p \in Procs :
        /\ out[p].error = LedgerError =>
              /\ Ended(p) /\ ~Returned(p)
              /\ out[p].kind = "error"
              /\ out[p].per_target_results = <<>>
              /\ out[p].overall_status = ""
        /\ ReportedIn(out[p].per_target_results, LedgerError) = {}
        /\ ReportedIn(loc[p].results, LedgerError) = {}
        /\ \A r \in RequestIds : ReportedIn(results[r], LedgerError) = {}

\* A call has failed on a ledger operation after it had gone through its
\* targets: the upsert of a result or the read of the results rejected.
C25_Witness ==
    \E p \in Procs :
        /\ Ended(p)
        /\ out[p].error = LedgerError
        /\ attempted[p] # <<>>

\* C26: POST /tools/publish_post answers a validation error with 400, a
\* fingerprint conflict with 409, any other thrown error with 500, and
\* every outcome in which publishPost returns with 200 and the publish
\* response, also when every target failed.
C26_StatusCodes ==
    \A p \in Procs :
        (Ended(p) /\ out[p].kind # "crash") =>
            LET reply == Reply(out[p])
                conflict == /\ ValidInput(input[p])
                            /\ Existed(p)
                            /\ RequestAtStart(p).content_hash #
                                   generateContentHash(input[p].content)
            IN  /\ ~ValidInput(input[p]) => reply.code = 400
                /\ reply.code = 400 => ~ValidInput(input[p])
                /\ (conflict /\ out[p].error # LedgerError) => reply.code = 409
                /\ reply.code = 409 => conflict /\ out[p].error = MismatchError
                /\ Returned(p) <=> reply.code = 200
                /\ Returned(p) => reply.result = out[p]
                /\ (out[p].kind = "error" /\ out[p].error # MismatchError)
                      => reply.code = 500 /\ reply.message = out[p].error

\* The endpoint has answered 409 to a call that re-used a request_id with
\* another content.
C26_Witness ==
    \E p \in Procs :
        /\ Ended(p)
        /\ Existed(p)
        /\ Reply(out[p]).code = 409

\* A field of a TargetResult holds a value.
Carries(v) == v \notin {Undefined, Null, EmptyStr}

\* A failed result carries a non-empty error_message and nothing else; a
\* success carries platform_id, platform_url and posted_at and no
\* error_message.
WellFormed(tr) ==
    IF tr.status = "failed"
    THEN /\ Carries(tr.error_message)
         /\ ~Carries(tr.platform_id) /\ ~Carries(tr.platform_url) /\ ~Carries(tr.posted_at)
    ELSE /\ tr.status = "success"
         /\ Carries(tr.platform_id) /\ Carries(tr.platform_url) /\ Carries(tr.posted_at)
         /\ ~Carries(tr.error_message)

\* C27: every TargetResult the orchestrator produces is well formed, in
\* the results it builds, in the responses and in the ledger after any
\* sequence of calls, also where a success replaced a failed record.
C27_ResultsWellFormed ==
    /\ \A p \in Procs :
          /\ \A i \in 1..Len(loc[p].results) : WellFormed(loc[p].results[i])
          /\ \A i \in 1..Len(out[p].per_target_results) :
                WellFormed(out[p].per_target_results[i])
    /\ \A r \in RequestIds :
          \A i \in 1..Len(results[r]) : WellFormed(results[r][i])

\* The number of iterations of publishToTargets in which the call of the
\* slot has called a publisher.
PublisherCalls(p) == Cardinality({i \in 1..Len(attempted[p]) : attempted[p][i].called})

\* C28: a publisher is invoked for a request_id only after the record of
\* the request is in the ledger: at every publisher invocation, in every
\* execution, crashes included, the record is there, and for a new
\* request it is the record the call inserted; a request with a publish
\* on a platform has its record.
C28_RequestRecordedFirst ==
    [][/\ \A p \in Procs :
             PublisherCalls(p)' > PublisherCalls(p) =>
                 /\ requests[input[p].request_id].present
                 /\ requests[input[p].request_id].content_hash = loc[p].content_hash
                 /\ loc[p].path = "new" =>
                       /\ ~RequestAtStart(p).present
                       /\ requests[input[p].request_id].content_json = loc[p].content
       /\ \A r \in RequestIds, t \in TargetPlatform :
             published'[r][t] > 0 => requests'[r].present
      ]_vars

\* The call that created a request has invoked a publisher.
C28_Witness ==
    \E p \in Procs :
        /\ loc[p].path = "new"
        /\ PublisherCalls(p) >= 1
        /\ ~RequestAtStart(p).present
        /\ requests[input[p].request_id].present

\* C29: of two concurrent calls with force_retry_failed_targets for the same
\* request_id and content, at most one invokes the publisher of a target
\* recorded as failed, and the target is not published twice.
C29_OneRetryPublishes ==
    \A p, q \in Procs :
        (/\ p # q
         /\ Started(p) /\ Started(q)
         /\ Forced(p) /\ Forced(q)
         /\ input[p].request_id = input[q].request_id
         /\ input[p].content = input[q].content)
        => \A t \in TargetPlatform :
              /\ ~(t \in Invoked(p) /\ t \in Invoked(q))
              /\ published[input[p].request_id][t] <= 1

\* The call of the slot found no record of its request_id.
FoundNoRecord(p) == Started(p) /\ ~RequestAtStart(p).present

\* The call of the slot has inserted the request record.
Inserted(p) ==
    \/ pc[p] \in {"insertDrafts", "publish", "store"}
    \/ Returned(p) /\ out[p].path = "new"

\* The call of the slot failed on the primary key of post_requests.
LostInsert(p) == Ended(p) /\ out[p].error = <<"duplicate key value">>

\* C30: of two concurrent calls that both looked up the same, not yet
\* recorded request_id before either inserted it, at most one inserts the
\* request and invokes publishers; the other fails on the request insert
\* with the primary-key violation and has invoked no publisher.
C30_OneInsertWins ==
    \A p, q \in Procs :
        (/\ p # q
         /\ FoundNoRecord(p) /\ FoundNoRecord(q)
         /\ input[p].request_id = input[q].request_id)
        => /\ ~(Inserted(p) /\ Inserted(q))
           /\ ~(PublisherCalls(p) >= 1 /\ PublisherCalls(q) >= 1)
           /\ Inserted(p) /\ Ended(q) => LostInsert(q)
           /\ LostInsert(q) => attempted[q] = <<>> /\ ~Returned(q)

\* One of two racing calls has inserted the request and invoked a
\* publisher, the other has failed on its insert.
C30_Witness ==
    \E p, q \in Procs :
        /\ p # q
        /\ FoundNoRecord(p) /\ FoundNoRecord(q)
        /\ Inserted(p) /\ PublisherCalls(p) >= 1
        /\ LostInsert(q)

\* C31: once the ledger holds a result with status success for a
\* (request_id, target) pair, no later write replaces it with a result of
\* status failed, under any interleaving of concurrent calls for that
\* request_id.
C31_SuccessNeverOverwritten ==
    [][\A r \in RequestIds, t \in TargetPlatform :
          t \in StatusIn(results[r], "success") =>
              t \notin StatusIn(results'[r], "failed")
      ]_vars

\* The declared targets of the request that had no record when the call of
\* the slot started. Calls come one after the other, so that a declared
\* target is without a record only where a crash cut the call that created
\* the request before the result of the target was written.
LeftWithoutRecord(p) ==
    Range(RequestAtStart(p).targets_json) \ Range([i \in 1..Len(ResultsAtStart(p)) |->
                                                     ResultsAtStart(p)[i].target])

\* C32: a target that a crash-truncated first call left without a result
\* record stays without one: every later call with the same request_id and
\* content, with or without force_retry_failed_targets, goes through no
\* iteration for it and invokes no publisher for it; a plain replay returns
\* the stored results, which may be none, with overall_status failed when
\* none of them is a success.
C32_CrashedTargetNeverPublished ==
    \A p \in Procs :
        (Started(p) /\ Existed(p) /\ SameFingerprint(p)) =>
            /\ \A t \in LeftWithoutRecord(p) :
                  /\ TimesAttempted(p, t) = 0
                  /\ RowsOf(results[input[p].request_id], t) = {}
            /\ (Returned(p) /\ ~Forced(p)) =>
                  /\ out[p].per_target_results =
                       [i \in 1..Len(ResultsAtStart(p)) |-> ResultOf(ResultsAtStart(p)[i])]
                  /\ StatusIn(ResultsAtStart(p), "success") = {} =>
                        out[p].overall_status = "failed"

\* After a crash that left a failed record for one declared target and no
\* record for the other, a forced retry has returned: it invoked the
\* publisher of the failed target.
C32_Witness ==
    \E p \in Procs :
        /\ Returned(p) /\ Existed(p) /\ SameFingerprint(p) /\ Forced(p)
        /\ LeftWithoutRecord(p) # {}
        /\ Invoked(p) # {}

\* C33: a call writes no result until publishToTargets has gone through
\* every target of its target set: a step of the publishing loop, and a
\* crash during the loop, leave the results of the request as the call
\* found them, also where a target has been published; a publisher is
\* invoked only by a call that has written nothing; and a step that writes
\* a result is taken by a call that has been through all its targets.
C33_WritesAfterLastPublish ==
    [][/\ \A p \in Procs :
             pc[p] = "publish" =>
                 results'[input[p].request_id] = ResultsAtStart(p)
       /\ \A p \in Procs :
             PublisherCalls(p)' > PublisherCalls(p) =>
                 /\ pc[p] = "publish"
                 /\ results[input[p].request_id] = ResultsAtStart(p)
       /\ results' # results =>
             \E p \in Procs :
                 /\ pc[p] = "store"
                 /\ Len(attempted[p]) = Len(loc[p].targets)
                 /\ \A t \in Range(loc[p].targets) : TimesAttempted(p, t) >= 1
      ]_vars

\* A crash has cut a call for a new request during its publishing loop,
\* after a target was published: the ledger holds the request and no
\* result.
C33_Witness ==
    \E p \in Procs, r \in RequestIds :
        /\ out[p].kind = "crash"
        /\ requests[r].present
        /\ results[r] = <<>>
        /\ \E t \in TargetPlatform : published[r][t] >= 1

\* The iterations of publishToTargets in which the call of the slot has
\* called the publisher of platform t.
InvocationsOf(p, t) ==
    {i \in 1..Len(attempted[p]) : attempted[p][i].target = t /\ attempted[p][i].called}

\* C34: the targets of a request form a set: within one call the publisher
\* of each platform is invoked at most once, also when the targets array
\* names a platform more than once; and a plain replay that follows the
\* first call with the same arguments returns the overall_status the first
\* call returned.
C34_TargetsFormASet ==
    /\ \A p \in Procs, t \in TargetPlatform : Cardinality(InvocationsOf(p, t)) <= 1
    /\ \A p \in Procs :
          (Returned(p) /\ prev.set /\ ~Forced(p) /\ input[p] = prev.input) =>
              out[p].overall_status =
                  computeOverallStatus(prev.per_target_results, prev.input.targets)

\* The placeholder identifiers of the dry-run publishes.
Placeholders == {<<"dry_run_tweet_", "0">>, <<"dry_run_message_id">>}

\* The call of the slot created its request with dry_run = true and has
\* returned.
DryRunCreated(p) ==
    Returned(p) /\ out[p].path = "new" /\ input[p].options.dry_run

\* The request was created by a call with dry_run = true and the call of
\* the slot comes later, with the same content and dry_run = false.
AfterDryRun(p) ==
    /\ Started(p) /\ Existed(p) /\ SameFingerprint(p)
    /\ RequestAtStart(p).options_json.dry_run
    /\ ~input[p].options.dry_run

\* The stored results are what the later call returns, and it has invoked no
\* publisher.
HandledAsReplay(p) ==
    /\ attempted[p] = <<>>
    /\ ledger = snap[p]
    /\ Ended(p) =>
          /\ Returned(p)
          /\ out[p].path = "replay"
          /\ out[p].per_target_results =
               [i \in 1..Len(ResultsAtStart(p)) |-> ResultOf(ResultsAtStart(p)[i])]

C37_OneClientUntilDestroy ==
    [][/\ platform'.clients > platform.clients => discordPublisher.client = 0
       /\ \A c \in Publishes :
             (/\ ppc[c] = "idle" /\ ppc'[c] # "idle"
              /\ pinput'[c].target = "discord" /\ ~pinput'[c].dry_run
              /\ discordPublisher.client = 0
              /\ config.botToken # EmptyStr) =>
                 platform'.clients = platform.clients + 1
      ]_vars

\* The posts of the publish of the slot that the platform has accepted:
\* every client call that did not throw.
PostsSent(c) == plog[c].clientCalls - Len(plog[c].errors)

\* The slot holds a real publish of an X thread.
ThreadPublish(c) ==
    /\ ppc[c] # "idle"
    /\ pinput[c].target = "x" /\ ~pinput[c].dry_run
    /\ pinput[c].draft.mode = "thread"

\* C38: when an attempt of an X thread publish fails part-way, the retry
\* executor runs the whole thread again: the next attempt starts with none
\* of the posts of the failed attempt (it sends from post 1, as a new
\* thread) while the platform keeps the posts already sent; so one publish
\* call sends each post at most once per attempt, up to maxAttempts times,
\* and all the posts but the last up to maxAttempts times.
C38_RetryResendsThread ==
    [][\A c \in Publishes :
          /\ (ThreadPublish(c) /\ plocal'[c].attempt > plocal[c].attempt) =>
                /\ plocal'[c].platform_ids = <<>>
                /\ platform'.posts = platform.posts
                /\ PostsSent(c)' = PostsSent(c)
          /\ ThreadPublish(c)' =>
                /\ plog'[c].attempts <= config.retry.maxAttempts
                /\ PostsSent(c)' <= (plog'[c].attempts - 1) * (PostsToSend(pinput'[c].draft) - 1)
                                      + PostsToSend(pinput'[c].draft)
                /\ PostsSent(c)' >= Len(plocal'[c].platform_ids)
      ]_vars

\* A publish of a thread of two posts has failed after three attempts in
\* each of which the first post was sent and the second one failed: the
\* first post was sent three times.
C38_Witness ==
    \E c \in Publishes :
        /\ ThreadPublish(c) /\ Raised(c)
        /\ PostsToSend(pinput[c].draft) = 2
        /\ plog[c].attempts = config.retry.maxAttempts
        /\ Len(plog[c].errors) = config.retry.maxAttempts
        /\ PostsSent(c) = config.retry.maxAttempts

\* C39: for every request in the ledger the overall status list_recent_posts
\* reports is the overall_status a plain replay with the declared targets
\* returns; and over every non-empty targets array and the results of every
\* reachable ledger the two computations, listRecentPosts and
\* computeOverallStatus, give the same status.
C39_ListAgreesWithReplay ==
    /\ \A p \in Procs :
          (/\ Returned(p) /\ out[p].path = "replay"
           /\ input[p].targets = requests[input[p].request_id].targets_json) =>
              out[p].overall_status =
                  listRecentPostsStatus(results[input[p].request_id],
                                        requests[input[p].request_id].targets_json)
    /\ \A r \in RequestIds, targets \in TargetLists \ {<<>>} :
          computeOverallStatus(findResultsByRequestId(r), targets) =
              listRecentPostsStatus(results[r], targets)

\* A plain replay with the declared targets has returned partial for a
\* request with a success and a failed record.
C39_Witness ==
    \E p \in Procs :
        /\ Returned(p) /\ out[p].path = "replay"
        /\ input[p].targets = requests[input[p].request_id].targets_json
        /\ out[p].overall_status = "partial"
        /\ StatusIn(results[input[p].request_id], "failed") # {}

\* C36: every publishPost call terminates, with a response or an error,
\* provided every ledger operation and every platform client call returns
\* or fails; on its way each target of the call is gone through once and
\* its publish is awaited once.
C36_CallsTerminate ==
    \A p \in SeqProcs : ~Idle(p) ~> Ended(p)

\* A forced retry has returned after the publish of the target it retried
\* had failed again.
C36_Witness ==
    \E p \in Procs :
        /\ Returned(p) /\ out[p].path = "retry"
        /\ \E i \in 1..Len(attempted[p]) : attempted[p][i].called /\ ~attempted[p][i].ok

====
